---- MODULE Spec2Model ----
(***************************************************************************)
(* Session-gated encryption pipeline of pwa-passkey-apikeys-spike:         *)
(* SecureCache (src/secure-cache.js), SessionManager                       *)
(* (src/session-manager.js), and the PasskeyKeyManager facade (src/app.js) *)
(* with its collaborators (storage, key manager, passkey service).         *)
(*                                                                         *)
(* Time is discrete.  The host timer facility is the set `timers`; a timer *)
(* is due once now >= at, and time does not advance past a due timer.      *)
(***************************************************************************)
EXTENDS Integers, Sequences, FiniteSets, TLC

\* ------------------------------------------------------------------ bounds
MaxTime == 3
DefaultDuration == 2
MaxOps == 3

\* --------------------------------------------------------------- constants
NULL == "null"
QuotaBytes == 1

\* a caller's argument that is not a string (a number, an object)
NotAString == "<not a string>"

\* the keys of the PROVIDERS object
Providers == {"openai", "anthropic"}

\* property names PROVIDERS inherits from Object.prototype
Inherited == {"constructor"}

\* String.prototype.toLowerCase on the argument strings used here
ToLowerCase(x) == IF x = "OpenAI" THEN "openai" ELSE x

\* PROVIDERS[name] is truthy: an own key or an inherited member
Lookup(name) == name \in Providers \cup Inherited

\* every string validateProvider lets through; the facade uses the string
\* as given as the storage key and the session key
Names == Providers \cup Inherited \cup {"OpenAI"}
Secrets == {"sk-a", "sk-b", "huge"}

\* a string that is not well-formed UTF-16: one unpaired surrogate
LoneSurrogate == "\\uD800"
Durations == {1, DefaultDuration}
RandomBytes == {0, 3}

\* SecureCache instances: a provider's replaced or expired instance is
\* cleared before the next one is made, so no more than one per provider
\* is ever reachable
CacheIds == 1..Cardinality(Providers)

\* facade calls in flight: at most one per provider
Slots == 1..Cardinality(Providers)

\* ------------------------------------------------------- byte-level helpers
\* TextEncoder.encode: the UTF-8 bytes of a string ("huge" stands for a
\* string longer than crypto.getRandomValues accepts); an unpaired
\* surrogate is encoded as U+FFFD
Encode(s) ==
  CASE s = "sk-a" -> <<1>>
    [] s = "sk-b" -> <<2>>
    [] s = "huge" -> <<3, 3>>
    [] s \in {LoneSurrogate, "\\uFFFD"} -> <<0>>
    [] OTHER -> <<>>

\* TextDecoder.decode: bytes that are no valid text decode to U+FFFD
Decode(bytes) ==
  CASE bytes = <<1>> -> "sk-a"
    [] bytes = <<2>> -> "sk-b"
    [] bytes = <<3, 3>> -> "huge"
    [] bytes = <<>> -> ""
    [] OTHER -> "\\uFFFD"

\* a ^ b on two-bit bytes
BitXor(a, b) ==
  (((a % 2) + (b % 2)) % 2) + (2 * (((a \div 2) + (b \div 2)) % 2))

XorBytes(x, y) == [i \in 1..Len(x) |-> BitXor(x[i], y[i])]

\* crypto.getRandomValues(new Uint8Array(n)): any n random bytes; over the
\* quota it throws and yields nothing
Pads(n) == IF n > QuotaBytes THEN {<<>>} ELSE [1..n -> RandomBytes]

VARIABLES now, caches, sessions, timers, expiredView,
          db, calls, lastStored, ops, emitted

vars ==
  <<now, caches, sessions, timers, expiredView, db, calls, lastStored, ops, emitted>>

\* ------------------------------------------------------------- SecureCache
\* a timer handle, as returned by setTimeout, identifies the pending timer
\* it was returned for; NoTimer is the null handle
NoTimer == [at |-> 0, cb |-> ""]

Pending(c, h) == [at |-> h.at, cache |-> c, cb |-> h.cb]

ClearTimeout(ts, c, h) == ts \ {Pending(c, h)}

\* one instance: the WeakMap entry {pad, data} (held), this[CACHE_SYMBOL]
\* {timer, created}; sv/sat/sttl remember the last store() that no later
\* store/resetTimer/clear has overridden and whose timer has not run
\* (history, sat = 0: none); expired tells that the timer callback was the
\* last thing to act on the instance (history)
NewCacheState ==
  [held |-> FALSE, pad |-> <<>>, data |-> <<>>, timer |-> NoTimer, created |-> 0,
   sv |-> NULL, sat |-> 0, sttl |-> 0, expired |-> FALSE]

\* the registry-side state threaded through the synchronous operations
\* events collects, in order, what the operations emit to listeners
Reg == [caches |-> caches, sessions |-> sessions, timers |-> timers, events |-> <<>>]

\* new SecureCache(): a fresh cacheKey and {timer: null, created: null},
\* then cache.delete(this.cacheKey)
ConstructorShared(r, c) ==
  [r EXCEPT !.caches = [d \in DOMAIN r.caches |->
                          IF d = c THEN NewCacheState
                          ELSE [r.caches[d] EXCEPT !.held = FALSE, !.pad = <<>>,
                                                   !.data = <<>>]]]

Constructor(r, c) == [r EXCEPT !.caches[c] = NewCacheState]

\* the {pad, data} object of instance c leaves the WeakMap: how tells
\* whether its bytes were "overwritten" with random bytes first or are
\* "intact"; recorded with the step's events (history), under the provider
\* whose callback the instance's timer carries
Release(r, c, how) ==
  IF ~r.caches[c].held THEN r
  ELSE [r EXCEPT !.events = @ \o <<[src |-> "cache", name |-> how,
                                    provider |-> r.caches[c].timer.cb,
                                    duration |-> 0]>>]

\* SecureCache.resetTimer(expiryMs, onExpire); cb is the provider whose
\* registry callback was supplied, "" for no callback
ResetTimerNoCancel(r, c, ms, cb) ==
  LET h == [at |-> now + ms, cb |-> cb]
  IN [r EXCEPT !.timers = r.timers \cup {Pending(c, h)},
               !.caches[c].timer = h,
               !.caches[c].sv = NULL, !.caches[c].sat = 0, !.caches[c].sttl = 0,
               !.caches[c].expired = FALSE]

ResetTimer(r, c, ms, cb) ==
  LET ts1 == IF r.caches[c].timer # NoTimer
             THEN ClearTimeout(r.timers, c, r.caches[c].timer)
             ELSE r.timers
      h == [at |-> now + ms, cb |-> cb]
  IN [r EXCEPT !.timers = ts1 \cup {Pending(c, h)},
               !.caches[c].timer = h,
               !.caches[c].sv = NULL, !.caches[c].sat = 0, !.caches[c].sttl = 0,
               !.caches[c].expired = FALSE]

\* SecureCache.store(value, expiryMs, onExpire) with the random pad drawn;
\* ok = FALSE when it throws CryptoError CACHE_STORE_FAILED
Store(r, c, value, ms, cb, pad) ==
  LET bytes == Encode(value)
      r1 == [Release(r, c, "intact") EXCEPT !.caches[c].held = FALSE,
                      !.caches[c].pad = <<>>,
                      !.caches[c].data = <<>>,
                      !.caches[c].sat = 0, !.caches[c].sv = NULL, !.caches[c].sttl = 0,
                      !.caches[c].expired = FALSE]
  IN IF Len(bytes) > QuotaBytes
     THEN [ok |-> FALSE, r |-> r1]
     ELSE LET r2 == [r1 EXCEPT !.caches[c].held = TRUE,
                               !.caches[c].pad = pad,
                               !.caches[c].data = XorBytes(bytes, pad),
                               !.caches[c].created = now]
              r3 == ResetTimer(r2, c, ms, cb)
          IN [ok |-> TRUE,
              r |-> [r3 EXCEPT !.caches[c].sv = value, !.caches[c].sat = now,
                               !.caches[c].sttl = ms]]

\* SecureCache.retrieve()
Retrieve(cs) ==
  IF cs.timer = NoTimer THEN NULL
  ELSE IF ~cs.held THEN NULL
  ELSE Decode(XorBytes(cs.data, cs.pad))

\* SecureCache.has()
Has(cs) == cs.held

\* SecureCache.clear()
ClearKeepEntry(r, c) ==
  [r EXCEPT !.caches[c].timer = NoTimer, !.caches[c].created = 0,
            !.caches[c].sv = NULL, !.caches[c].sat = 0, !.caches[c].sttl = 0,
            !.caches[c].expired = FALSE,
            !.timers = IF r.caches[c].timer # NoTimer
                       THEN ClearTimeout(r.timers, c, r.caches[c].timer)
                       ELSE r.timers]

Clear(r, c) ==
  [Release(r, c, "overwritten") EXCEPT
            !.caches[c] = NewCacheState,
            !.timers = IF r.caches[c].timer # NoTimer
                       THEN ClearTimeout(r.timers, c, r.caches[c].timer)
                       ELSE r.timers]

\* SecureCache.getTimeRemaining(totalDuration)
GetTimeRemaining(cs, total) ==
  IF cs.created = 0 THEN 0
  ELSE IF total - (now - cs.created) > 0 THEN total - (now - cs.created) ELSE 0

\* the timeout closure of resetTimer, after the expiry has been recorded:
\* this.clear() only (the onExpire part belongs to the registry)
ExpireCacheNoClear(r, c) ==
  [r EXCEPT !.caches[c].timer = NoTimer, !.caches[c].expired = TRUE]

ExpireCache(r, c) == [Clear(r, c) EXCEPT !.caches[c].expired = TRUE]

\* ---------------------------------------------------------- SessionManager
\* an emitted event: who emitted it, its name and its payload; duration 0
\* stands for a payload without a duration
Event(src, name, p, d) == [src |-> src, name |-> name, provider |-> p, duration |-> d]

\* the listeners the facade registers on its registry in its constructor:
\* what the facade emits, in the same call, for a registry event
Forward(e) ==
  CASE e.name = "expired" -> <<Event("facade", "sessionExpired", e.provider, 0)>>
    [] e.name = "started" -> <<Event("facade", "sessionStarted", e.provider, 0)>>
    [] e.name = "extended" -> <<Event("facade", "sessionExtended", e.provider, 0)>>
    [] OTHER -> <<>>

\* SessionManager.emit(event, data): the listeners run synchronously
Emit(r, name, p, d) ==
  [r EXCEPT !.events = (@ \o <<Event("registry", name, p, d)>>)
                         \o Forward(Event("registry", name, p, d))]

NoSession == [cache |-> 0, duration |-> 0, startTime |-> 0]

\* a SecureCache object is reachable while a session or a pending timer
\* refers to it; new SecureCache() takes an unreachable one
Reachable(r, c) ==
  \/ \E p \in Names : r.sessions[p].cache = c
  \/ \E t \in r.timers : t.cache = c
  \/ r.caches[c].held

CanAllocate(r) == \E c \in CacheIds : ~Reachable(r, c)

\* object identity is arbitrary: the lowest-numbered unreachable instance
\* at or after the provider's own index, else the lowest unreachable one
ProviderIndex(p) ==
  CASE p = "openai" -> 1
    [] p = "anthropic" -> 2
    [] p = "constructor" -> 3
    [] OTHER -> 4

NewSecureCacheShared(r, p) == 1

NewSecureCache(r, p) ==
  LET free == {c \in CacheIds : ~Reachable(r, c)}
      pref == {c \in free : c >= ProviderIndex(p)}
      pick == IF pref # {} THEN pref ELSE free
  IN CHOOSE c \in pick : \A d \in pick : c <= d

\* SessionManager.hasSession(provider)
HasSession(r, p) == r.sessions[p].cache # 0

\* SessionManager.getApiKey(provider)
GetApiKeyMiss(r, p) == NULL

GetApiKey(r, p) ==
  IF r.sessions[p].cache = 0 THEN NULL
  ELSE Retrieve(r.caches[r.sessions[p].cache])

\* SessionManager.getSessionInfo(provider)
NullInfo ==
  [isNull |-> TRUE, active |-> FALSE, duration |-> 0, elapsed |-> 0,
   remaining |-> 0, expiresAt |-> 0]

GetSessionInfoSinceStore(r, p) ==
  IF r.sessions[p].cache = 0 THEN NullInfo
  ELSE LET s == r.sessions[p]
           elapsed == now - r.caches[s.cache].created
       IN [isNull |-> FALSE, active |-> TRUE, duration |-> s.duration,
           elapsed |-> elapsed,
           remaining |-> IF s.duration - elapsed > 0 THEN s.duration - elapsed ELSE 0,
           expiresAt |-> r.caches[s.cache].created + s.duration]

GetSessionInfo(r, p) ==
  IF r.sessions[p].cache = 0 THEN NullInfo
  ELSE LET s == r.sessions[p]
           elapsed == now - s.startTime
       IN [isNull |-> FALSE, active |-> TRUE, duration |-> s.duration,
           elapsed |-> elapsed,
           remaining |-> IF s.duration - elapsed > 0 THEN s.duration - elapsed ELSE 0,
           expiresAt |-> s.startTime + s.duration]

\* SessionManager.endSession(provider)
EndSessionKeepEntry(r, p) ==
  IF r.sessions[p].cache = 0 THEN r ELSE Clear(r, r.sessions[p].cache)

EndSession(r, p) ==
  IF r.sessions[p].cache = 0 THEN r
  ELSE Emit([Clear(r, r.sessions[p].cache) EXCEPT !.sessions[p] = NoSession],
            "ended", p, 0)

\* SessionManager.startSession(provider, apiKey, duration)
StartSessionNoEntry(r, p, apiKey, duration, pad) ==
  LET r1 == EndSession(r, p)
      c == NewSecureCache(r1, p)
  IN Store(Constructor(r1, c), c, apiKey, duration, p, pad)

StartSession(r, p, apiKey, duration, pad) ==
  LET r1 == EndSession(r, p)
      c == NewSecureCache(r1, p)
      st == Store(Constructor(r1, c), c, apiKey, duration, p, pad)
  IN IF ~st.ok THEN st
     ELSE [ok |-> TRUE,
           r |-> Emit([st.r EXCEPT !.sessions[p] =
                         [cache |-> c, duration |-> duration, startTime |-> now]],
                      "started", p, duration)]

\* SessionManager.extendSession(provider)
ExtendSessionRemaining(r, p) ==
  IF r.sessions[p].cache = 0 THEN r
  ELSE Emit([ResetTimer(r, r.sessions[p].cache, r.sessions[p].duration, p)
               EXCEPT !.sessions[p].startTime = now],
            "extended", p, GetSessionInfo(r, p).remaining)

ExtendSession(r, p) ==
  IF r.sessions[p].cache = 0 THEN r
  ELSE Emit([ResetTimer(r, r.sessions[p].cache, r.sessions[p].duration, p)
               EXCEPT !.sessions[p].startTime = now],
            "extended", p, r.sessions[p].duration)

\* SessionManager.endAllSessions(): endSession for Array.from(sessions.keys())
RECURSIVE EndEach(_, _)
EndEach(r, ps) ==
  IF ps = {} THEN r
  ELSE LET p == CHOOSE q \in ps : TRUE
       IN EndEach(EndSession(r, p), ps \ {p})

EndAllSessionsClearedFirst(r) ==
  EndEach(Emit(r, "cleared", "", 0), {p \in Names : r.sessions[p].cache # 0})

EndAllSessions(r) ==
  Emit(EndEach(r, {p \in Names : r.sessions[p].cache # 0}), "cleared", "", 0)

\* what a listener that calls back into the registry sees
NoView == [provider |-> "", hasSession |-> FALSE, infoNull |-> TRUE, apiKey |-> NULL]

View(r, p) ==
  [provider |-> p, hasSession |-> HasSession(r, p),
   infoNull |-> GetSessionInfo(r, p).isNull, apiKey |-> GetApiKey(r, p)]

\* the onExpire closure of startSession/extendSession: emit('expired') to
\* the listeners, then sessions.delete(provider)
OnExpireKeepEntry(r, p) == [r |-> Emit(r, "expired", p, 0), view |-> View(r, p)]

OnExpire(r, p) ==
  [r |-> [Emit(r, "expired", p, 0) EXCEPT !.sessions[p] = NoSession],
   view |-> View(r, p)]

\* the setTimeout callback of resetTimer: this.clear(); if (onExpire) onExpire()
TimerCallback(r, t) ==
  LET r1 == ExpireCache([r EXCEPT !.timers = r.timers \ {t}], t.cache)
  IN IF t.cb = "" THEN [r |-> r1, view |-> NoView]
     ELSE OnExpire(r1, t.cb)

\* ------------------------------------------------------- shared plumbing
Commit(r) ==
  /\ caches' = r.caches
  /\ sessions' = r.sessions
  /\ timers' = r.timers
  /\ emitted' = r.events

\* ---------------------------------------------------------- durable storage
NoCipher == [pt |-> <<>>, raw |-> 0, iv |-> 0]

\* a record of the object store; created/updated tell whether the field
\* holds a timestamp
NoRecord ==
  [exists |-> FALSE, credentialId |-> 0, created |-> FALSE, encKeyMaterial |-> 0,
   iv |-> 0, encrypted |-> NoCipher, updated |-> FALSE]

\* StorageService.delete(provider): store.delete(provider)
StorageDeleteNothing(d, p) == d

StorageDelete(d, p) == [d EXCEPT ![p] = NoRecord]

\* StorageService.put(provider, data): store.put({provider, ...data})
\* replaces whatever record the key held
StoragePutShared(d, p, data) == [x \in DOMAIN d |-> data]

StoragePut(d, p, data) == [d EXCEPT ![p] = data]

\* the record createPasskey writes: {credentialId, created}
PasskeyRecord(cred) ==
  [NoRecord EXCEPT !.exists = TRUE, !.credentialId = cred, !.created = TRUE]

\* the record storeKey writes:
\* {credentialId, encKeyMaterial, iv, encrypted, updated}
KeyRecordNoIv(cred, keyBuffer, iv, encrypted) ==
  [NoRecord EXCEPT !.exists = TRUE, !.credentialId = cred,
                   !.encKeyMaterial = keyBuffer, !.encrypted = encrypted,
                   !.updated = TRUE]

KeyRecord(cred, keyBuffer, iv, encrypted) ==
  [NoRecord EXCEPT !.exists = TRUE, !.credentialId = cred,
                   !.encKeyMaterial = keyBuffer, !.iv = iv,
                   !.encrypted = encrypted, !.updated = TRUE]

\* ------------------------------------------------------------ facade calls
NoKey == [raw |-> 0, extractable |-> FALSE]

\* one call of an async facade method: its position (pc), its locals, its
\* settlement, and what it has done so far (history)
IdleCall ==
  [op |-> "none", provider |-> "", pc |-> "idle", apiKey |-> NULL,
   cred |-> 0, cred2 |-> 0, key |-> NoKey, keyBuffer |-> 0, iv |-> 0,
   encrypted |-> NoCipher,
   status |-> "none", value |-> NULL, errClass |-> "", errCode |-> "", errMsg |-> "",
   failedAt |-> "", errEvent |-> "", okEvent |-> "",
   supported |-> TRUE, platform |-> "",
   authCalls |-> 0, authOk |-> 0, gets |-> 0, encrypts |-> 0, decrypts |-> 0,
   decAuthed |-> FALSE,
   puts |-> 0, starts |-> 0, startAuthed |-> FALSE,
   preLive |-> FALSE, preCached |-> NULL, preExpired |-> FALSE,
   mutRec |-> FALSE, mutSess |-> FALSE]

\* a settled promise is observed (microtask) before any other task runs
Quiet == \A i \in Slots : calls[i].pc # "done"

\* ------------------------------------------------------- host timer facility
\* a due timer runs its callback (one macrotask, run to completion)
FireTimer(t) ==
  /\ Quiet
  /\ t.at <= now
  /\ LET res == TimerCallback(Reg, t)
     IN /\ Commit(res.r)
        /\ expiredView' = IF t.cb = "" THEN expiredView ELSE res.view
  /\ UNCHANGED <<now, db, calls, lastStored, ops>>

Fire == \E t \in timers : FireTimer(t)

\* Date.now() advances; never past a timer that is due
Tick ==
  /\ Quiet
  /\ now < MaxTime
  /\ \A t \in timers : t.at > now
  /\ now' = now + 1
  /\ expiredView' = NoView
  /\ UNCHANGED <<caches, sessions, timers, db, calls, lastStored, ops>>
  /\ emitted' = <<>>

\* ------------------------------------------- SecureCache used on its own
\* an instance nothing refers to any more gives way to a new one
CacheNewOn(c) ==
  /\ ~caches[c].held /\ caches[c].timer = NoTimer
  /\ Commit(Constructor(Reg, c))
  /\ UNCHANGED <<now, expiredView, db, calls, lastStored, ops>>

CacheNew == \E c \in CacheIds : CacheNewOn(c)

CacheStoreOn(c) ==
  \E v \in Secrets, ms \in Durations :
    \E pad \in Pads(Len(Encode(v))) :
      /\ Commit(Store(Reg, c, v, ms, "", pad).r)
      /\ UNCHANGED <<now, expiredView, db, calls, lastStored, ops>>

CacheStore == \E c \in CacheIds : CacheStoreOn(c)

CacheResetTimerOn(c) ==
  \E ms \in Durations :
    /\ Commit(ResetTimer(Reg, c, ms, ""))
    /\ UNCHANGED <<now, expiredView, db, calls, lastStored, ops>>

CacheResetTimer == \E c \in CacheIds : CacheResetTimerOn(c)

CacheClearOn(c) ==
  /\ Commit(Clear(Reg, c))
  /\ UNCHANGED <<now, expiredView, db, calls, lastStored, ops>>

CacheClear == \E c \in CacheIds : CacheClearOn(c)

\* ---------------------------------------- SessionManager used on its own
RegStartSessionOn(p) ==
  \E v \in Secrets, d \in Durations :
    \E pad \in Pads(Len(Encode(v))) :
      /\ CanAllocate(EndSession(Reg, p))
      /\ Commit(StartSession(Reg, p, v, d, pad).r)
      /\ UNCHANGED <<now, expiredView, db, calls, lastStored, ops>>

RegStartSession == \E p \in Providers : RegStartSessionOn(p)

RegExtendSessionOn(p) ==
  /\ Commit(ExtendSession(Reg, p))
  /\ UNCHANGED <<now, expiredView, db, calls, lastStored, ops>>

RegExtendSession == \E p \in Providers : RegExtendSessionOn(p)

RegEndSessionOn(p) ==
  /\ Commit(EndSession(Reg, p))
  /\ UNCHANGED <<now, expiredView, db, calls, lastStored, ops>>

RegEndSession == \E p \in Providers : RegEndSessionOn(p)

RegEndAllSessions ==
  /\ Commit(EndAllSessions(Reg))
  /\ UNCHANGED <<now, expiredView, db, calls, lastStored, ops>>

\* ------------------------------------------------------- PasskeyKeyManager
\* providers.json: the known providers; the other arguments callers pass
ProviderArgs == Providers \cup {"", "unknown"}

\* arguments of every kind a caller can pass: missing, not a string, a name
\* PROVIDERS does not define, a differently cased key, a configured key
AnyArgs == {"", NotAString, "unknown", "constructor", "OpenAI", "openai"}

\* PasskeyKeyManager.validateProvider(provider): "" when it returns, else
\* the class of the error it throws
ValidateProvider(x) ==
  IF x = "" \/ x = NULL \/ x = NotAString THEN "ValidationError"
  ELSE IF ~Lookup(ToLowerCase(x)) THEN "ProviderError"
  ELSE ""

ValidateCode(x) ==
  IF x = "" \/ x = NULL \/ x = NotAString THEN "VALIDATION_ERROR"
  ELSE "UNKNOWN_PROVIDER"

\* the storeKey argument check: !apiKey || typeof apiKey !== 'string'
ValidApiKey(k) == k # "" /\ k # NULL /\ k # NotAString

InFlight(cl) == cl.pc \notin {"idle", "done"}

\* the lowest call slot that holds no call
FreeSlot(i) ==
  /\ calls[i].pc = "idle"
  /\ \A j \in Slots : j < i => calls[j].pc # "idle"

\* callers serialize calls per provider (a UI that disables its buttons
\* while an operation is in flight); calls on different providers overlap
Serialized(p) ==
  \A j \in Slots : InFlight(calls[j]) => calls[j].provider # p

NewCall(op, p) ==
  [IdleCall EXCEPT !.op = op, !.provider = p, !.status = "pending",
                   !.preLive = HasSession(Reg, p),
                   !.preExpired = (expiredView.provider = p)]

\* a settled call no longer holds its locals
Settled(cl) ==
  [cl EXCEPT !.pc = "done", !.cred = 0, !.cred2 = 0, !.key = NoKey,
             !.keyBuffer = 0, !.iv = 0, !.encrypted = NoCipher]

\* catch (err) { this.emit(..., { provider, error: err }); throw err; }
\* the error object a facade call rejects with, given the one it caught
RethrowGeneric(class, code) == <<"Error", "">>

Rethrow(class, code) == <<class, code>>

\* the event a facade method emits in its catch block: createPasskey,
\* storeKey and retrieveKey have one around the steps after their argument
\* checks, deleteProvider has none
ErrorEvent(op, stage) ==
  CASE stage = "validate" -> ""
    [] op = "createPasskey" -> "passkeyError"
    [] op = "storeKey" -> "keyStoreError"
    [] op = "retrieveKey" -> "keyRetrievalError"
    [] OTHER -> ""

\* the event a facade method emits as its last step
SuccessEvent(op) ==
  CASE op = "createPasskey" -> "passkeyCreated"
    [] op = "storeKey" -> "keyStored"
    [] op = "retrieveKey" -> "keyRetrieved"
    [] op = "deleteProvider" -> "providerDeleted"
    [] OTHER -> ""

FailAndRetry(cl, class, code, stage) ==
  [cl EXCEPT !.status = "error", !.errClass = Rethrow(class, code)[1],
             !.errCode = Rethrow(class, code)[2], !.failedAt = stage,
             !.errEvent = ErrorEvent(cl.op, stage)]

Fail(cl, class, code, stage) ==
  [Settled(cl) EXCEPT !.status = "error", !.errClass = Rethrow(class, code)[1],
                      !.errCode = Rethrow(class, code)[2], !.failedAt = stage,
                      !.errEvent = ErrorEvent(cl.op, stage)]

Succeed(cl, v) ==
  [Settled(cl) EXCEPT !.status = "ok", !.value = v, !.okEvent = SuccessEvent(cl.op)]

SetCall(i, cl) == calls' = [calls EXCEPT ![i] = cl]

\* a call that throws in its argument checks, before its try block and
\* before any await; it touches nothing, so it is taken between the steps
\* of other calls only when none is in flight
Reject(op, x, k, class, code) ==
  \E i \in Slots :
    /\ Quiet /\ FreeSlot(i)
    /\ \A j \in Slots : ~InFlight(calls[j])
    /\ SetCall(i, Fail([IdleCall EXCEPT !.op = op, !.provider = x, !.apiKey = k],
                       class, code, "validate"))
    /\ UNCHANGED <<now, caches, sessions, timers, expiredView, db, lastStored, ops>>
    /\ emitted' = <<>>

\* a call that passes its argument checks and runs to its first await
Admit(i, p) ==
  /\ Quiet /\ FreeSlot(i) /\ Serialized(p)
  /\ ops < MaxOps
  /\ ops' = ops + 1

\* the caller takes the settled result
Return ==
  \E i \in Slots :
    /\ calls[i].pc = "done"
    /\ SetCall(i, IdleCall)
    /\ UNCHANGED <<now, caches, sessions, timers, expiredView, db, lastStored, ops>>
    /\ emitted' = <<>>

\* the outcomes of navigator.credentials.get / create
CeremonyOutcomes == {"ok", "NotAllowedError", "InvalidStateError"}

\* what a ceremony can end in besides a credential: a null result, or a
\* DOMException of some name ("AbortError" stands for every name the
\* service has no branch for), whose message is PlatformMessage
PlatformErrors ==
  {"NotAllowedError", "InvalidStateError", "NotSupportedError", "AbortError"}

PlatformOutcomes == {"ok", "null"} \cup PlatformErrors

PlatformMessage == "aborted"

\* the catch block of PasskeyService.authenticate: <<class, code, message>>
\* of the error thrown for a ceremony that ended in outcome
AuthenticateError(outcome) ==
  CASE outcome = "null" ->
         <<"AuthenticationError", "AUTHENTICATION_ERROR", "Authentication failed">>
    [] outcome = "NotAllowedError" ->
         <<"AuthenticationError", "AUTHENTICATION_ERROR",
           "User cancelled or authentication failed">>
    [] outcome = "InvalidStateError" ->
         <<"PasskeyError", "INVALID_STATE", "Authenticator is in an invalid state">>
    [] OTHER ->
         <<"AuthenticationError", "AUTHENTICATION_ERROR",
           "Authentication failed: " \o PlatformMessage>>

\* the catch block of PasskeyService.createCredential
CreateCredentialErrorGeneric(outcome) ==
  <<"PasskeyError", "CREATION_FAILED", "Passkey creation failed: " \o PlatformMessage>>

CreateCredentialError(outcome) ==
  CASE outcome = "null" ->
         <<"PasskeyError", "CREDENTIAL_CREATION_FAILED", "Failed to create credential">>
    [] outcome = "NotAllowedError" ->
         <<"AuthenticationError", "AUTHENTICATION_ERROR",
           "User cancelled or authentication failed">>
    [] outcome = "InvalidStateError" ->
         <<"PasskeyError", "INVALID_STATE", "Authenticator is in an invalid state">>
    [] outcome = "NotSupportedError" ->
         <<"PasskeyError", "NOT_SUPPORTED", "Operation not supported by authenticator">>
    [] OTHER ->
         <<"PasskeyError", "CREATION_FAILED",
           "Passkey creation failed: " \o PlatformMessage>>

\* if (!this.isSupported()) throw, and if (!credentialId) throw
WebAuthnNotSupported ==
  <<"PasskeyError", "WEBAUTHN_NOT_SUPPORTED", "WebAuthn is not supported in this browser">>

MissingCredentialId ==
  <<"PasskeyError", "MISSING_CREDENTIAL_ID", "Credential ID is required for authentication">>

\* PasskeyService.authenticate / createCredential error mapping
AuthFail(cl, outcome) ==
  Fail(cl, AuthenticateError(outcome)[1], AuthenticateError(outcome)[2], "auth")

CreateFail(cl, outcome) ==
  Fail(cl, CreateCredentialError(outcome)[1], CreateCredentialError(outcome)[2], "create")

\* crypto.getRandomValues / generateKey / a new credential's rawId yield a
\* value that differs from every value of its kind the system still holds
CallsOn(p) == {i \in Slots : calls[i].provider = p}

CredsHeld(p) ==
  {db[p].credentialId}
    \cup UNION {{calls[i].cred, calls[i].cred2, calls[i].authOk} : i \in CallsOn(p)}

KeysHeld(p) ==
  {db[p].encKeyMaterial, db[p].encrypted.raw}
    \cup UNION {{calls[i].key.raw, calls[i].keyBuffer, calls[i].encrypted.raw} : i \in CallsOn(p)}

IvsHeld(p) ==
  {db[p].iv, db[p].encrypted.iv}
    \cup UNION {{calls[i].iv, calls[i].encrypted.iv} : i \in CallsOn(p)}

FreshFor(p, held) ==
  CHOOSE n \in 1..(Cardinality(held) + 1) :
    /\ (10 * ProviderIndex(p)) + n \notin held
    /\ \A m \in 1..(n - 1) : (10 * ProviderIndex(p)) + m \in held

FreshReused(p, held) == (10 * ProviderIndex(p)) + 1

Fresh(p, held) == (10 * ProviderIndex(p)) + FreshFor(p, held)

\* KeyManager.decryptApiKey: AES-GCM opens only under the key and iv that
\* sealed it
CanDecrypt(enc, iv, key) == enc.raw # 0 /\ enc.raw = key.raw /\ enc.iv = iv

\* ---- createPasskey(provider)
CallCreatePasskey(x) ==
  IF ValidateProvider(x) # ""
  THEN Reject("createPasskey", x, NULL, ValidateProvider(x), ValidateCode(x))
  ELSE \E i \in Slots :
         /\ Admit(i, x)
         /\ SetCall(i, [NewCall("createPasskey", x) EXCEPT !.pc = "cp_create"])
         /\ UNCHANGED <<now, caches, sessions, timers, expiredView, db, lastStored>>
         /\ emitted' = <<>>

BeginCreatePasskey == \E x \in ProviderArgs : CallCreatePasskey(x)

\* await passkeyService.createCredential(provider, challenge)
CpCreate ==
  \E i \in Slots, outcome \in CeremonyOutcomes :
    LET p == calls[i].provider IN
    /\ calls[i].pc = "cp_create"
    /\ SetCall(i, IF outcome = "ok"
                  THEN [calls[i] EXCEPT !.pc = "cp_put", !.cred = Fresh(p, CredsHeld(p))]
                  ELSE CreateFail(calls[i], outcome))
    /\ UNCHANGED <<now, caches, sessions, timers, expiredView, db, lastStored, ops>>
    /\ emitted' = <<>>

\* await storage.put(provider, {credentialId, created})
CpPut ==
  \E i \in Slots, ok \in BOOLEAN :
    LET p == calls[i].provider IN
    /\ calls[i].pc = "cp_put"
    /\ IF ok
       THEN /\ db' = StoragePut(db, p, PasskeyRecord(calls[i].cred))
            /\ SetCall(i, Succeed([calls[i] EXCEPT !.puts = @ + 1, !.mutRec = TRUE], NULL))
       ELSE /\ SetCall(i, Fail(calls[i], "StorageError", "PUT_FAILED", "put"))
            /\ UNCHANGED db
    /\ UNCHANGED <<now, caches, sessions, timers, expiredView, lastStored, ops>>
    /\ emitted' = <<>>

\* ---- authenticatePasskey(provider), shared by storeKey and retrieveKey
\* if (!record?.credentialId) throw new ValidationError(NoPasskeyFound)
NoPasskeyFound == "No passkey found - create one first"

HasCredentialAlways(rec) == TRUE

HasCredential(rec) == rec.exists /\ rec.credentialId # 0

NoCredentialError(cl) ==
  [Fail(cl, "ValidationError", "VALIDATION_ERROR", "nocred") EXCEPT
     !.errMsg = NoPasskeyFound]

\* await storage.get(provider); then passkeyService.authenticate is invoked
AuthGetBypass(i, ok, nextpc) ==
  LET cl == calls[i]
      p == cl.provider
  IN IF ~ok THEN Fail(cl, "StorageError", "GET_FAILED", "get")
     ELSE IF ~HasCredential(db[p])
     THEN NoCredentialError([cl EXCEPT !.gets = @ + 1])
     ELSE IF cl.preLive
     THEN [cl EXCEPT !.gets = @ + 1, !.cred = db[p].credentialId,
                     !.authOk = db[p].credentialId,
                     !.pc = IF nextpc = "sk_auth" THEN "sk_get2" ELSE "rk_get2"]
     ELSE [cl EXCEPT !.gets = @ + 1, !.cred = db[p].credentialId,
                     !.authCalls = @ + 1, !.pc = nextpc]

AuthGet(i, ok, nextpc) ==
  LET cl == calls[i]
      p == cl.provider
  IN IF ~ok THEN Fail(cl, "StorageError", "GET_FAILED", "get")
     ELSE IF ~HasCredential(db[p])
     THEN NoCredentialError([cl EXCEPT !.gets = @ + 1])
     ELSE [cl EXCEPT !.gets = @ + 1, !.cred = db[p].credentialId,
                     !.authCalls = @ + 1, !.pc = nextpc]

\* await passkeyService.authenticate(record.credentialId, challenge)
AuthResultIgnoreFailure(i, outcome, nextpc) ==
  LET cl == calls[i]
  IN IF outcome = "ok" THEN [cl EXCEPT !.authOk = cl.cred, !.pc = nextpc]
     ELSE [cl EXCEPT !.pc = nextpc]

AuthResult(i, outcome, nextpc) ==
  LET cl == calls[i]
  IN IF outcome = "ok" THEN [cl EXCEPT !.authOk = cl.cred, !.pc = nextpc]
     ELSE AuthFail(cl, outcome)

\* ---- storeKey(provider, apiKey)
CallStoreKey(x, k) ==
  IF ValidateProvider(x) # ""
  THEN Reject("storeKey", x, k, ValidateProvider(x), ValidateCode(x))
  ELSE IF ~ValidApiKey(k)
  THEN Reject("storeKey", x, k, "ValidationError", "VALIDATION_ERROR")
  ELSE \E i \in Slots :
         /\ Admit(i, x)
         /\ SetCall(i, [NewCall("storeKey", x) EXCEPT !.pc = "sk_get", !.apiKey = k])
         /\ UNCHANGED <<now, caches, sessions, timers, expiredView, db, lastStored>>
         /\ emitted' = <<>>

BeginStoreKey == \E x \in ProviderArgs, k \in Secrets \cup {""} : CallStoreKey(x, k)

SkGet ==
  \E i \in Slots, ok \in BOOLEAN :
    /\ calls[i].pc = "sk_get"
    /\ SetCall(i, AuthGet(i, ok, "sk_auth"))
    /\ UNCHANGED <<now, caches, sessions, timers, expiredView, db, lastStored, ops>>
    /\ emitted' = <<>>

SkAuth ==
  \E i \in Slots, outcome \in CeremonyOutcomes :
    /\ calls[i].pc = "sk_auth"
    /\ SetCall(i, AuthResult(i, outcome, "sk_get2"))
    /\ UNCHANGED <<now, caches, sessions, timers, expiredView, db, lastStored, ops>>
    /\ emitted' = <<>>

\* const existingRecord = await storage.get(provider)
SkGet2 ==
  \E i \in Slots, ok \in BOOLEAN :
    LET p == calls[i].provider IN
    /\ calls[i].pc = "sk_get2"
    /\ SetCall(i, IF ok
                  THEN [calls[i] EXCEPT !.gets = @ + 1, !.cred2 = db[p].credentialId,
                                        !.pc = "sk_gen"]
                  ELSE Fail(calls[i], "StorageError", "GET_FAILED", "get2"))
    /\ UNCHANGED <<now, caches, sessions, timers, expiredView, db, lastStored, ops>>
    /\ emitted' = <<>>

\* await keyManager.generateEncryptionKey()
SkGen ==
  \E i \in Slots, ok \in BOOLEAN :
    LET p == calls[i].provider IN
    /\ calls[i].pc = "sk_gen"
    /\ SetCall(i, IF ok
                  THEN [calls[i] EXCEPT
                          !.key = [raw |-> Fresh(p, KeysHeld(p)), extractable |-> TRUE],
                          !.pc = "sk_export"]
                  ELSE Fail(calls[i], "CryptoError", "KEY_GENERATION_FAILED", "gen"))
    /\ UNCHANGED <<now, caches, sessions, timers, expiredView, db, lastStored, ops>>
    /\ emitted' = <<>>

\* await keyManager.exportKey(encKey)
SkExport ==
  \E i \in Slots, ok \in BOOLEAN :
    /\ calls[i].pc = "sk_export"
    /\ SetCall(i, IF ok /\ calls[i].key.extractable
                  THEN [calls[i] EXCEPT !.keyBuffer = calls[i].key.raw,
                                        !.pc = "sk_encrypt"]
                  ELSE Fail(calls[i], "CryptoError", "KEY_EXPORT_FAILED", "export"))
    /\ UNCHANGED <<now, caches, sessions, timers, expiredView, db, lastStored, ops>>
    /\ emitted' = <<>>

\* await keyManager.encryptApiKey(apiKey, encKey): a fresh iv, then encrypt
SkEncrypt ==
  \E i \in Slots, ok \in BOOLEAN :
    LET p == calls[i].provider
        iv == Fresh(p, IvsHeld(p))
    IN
    /\ calls[i].pc = "sk_encrypt"
    /\ SetCall(i, IF ok
                  THEN [calls[i] EXCEPT
                          !.encrypts = @ + 1,
                          !.iv = iv,
                          !.encrypted = [pt |-> Encode(calls[i].apiKey),
                                         raw |-> calls[i].key.raw, iv |-> iv],
                          !.pc = "sk_put"]
                  ELSE Fail(calls[i], "CryptoError", "ENCRYPTION_FAILED", "encrypt"))
    /\ UNCHANGED <<now, caches, sessions, timers, expiredView, db, lastStored, ops>>
    /\ emitted' = <<>>

\* the continuation that ends a call with startSession(provider, apiKey)
Started(cl, st, p, apiKey) ==
  LET cl1 == [cl EXCEPT !.starts = @ + 1, !.startAuthed = (cl.authOk # 0),
                        !.mutSess = (st.r.sessions[p] # sessions[p]
                                     \/ st.r.caches # caches)]
  IN IF st.ok
     THEN Succeed(cl1, apiKey)
     ELSE Fail(cl1, "CryptoError", "CACHE_STORE_FAILED", "session")

\* await storage.put(provider, {...}); sessionManager.startSession(...)
SkPut ==
  \E i \in Slots, ok \in BOOLEAN :
    \E pad \in Pads(Len(Encode(calls[i].apiKey))) :
      LET p == calls[i].provider IN
      /\ calls[i].pc = "sk_put"
      /\ IF ok
         THEN /\ CanAllocate(EndSession(Reg, p))
              /\ LET cl == calls[i]
                     st == StartSession(Reg, p, cl.apiKey, DefaultDuration, pad)
                     cl1 == Started([cl EXCEPT !.puts = @ + 1, !.mutRec = TRUE], st, p, cl.apiKey)
                 IN /\ db' = StoragePut(db, p, KeyRecord(cl.cred2, cl.keyBuffer,
                                                        cl.iv, cl.encrypted))
                    /\ Commit(st.r)
                    /\ SetCall(i, [cl1 EXCEPT !.value = NULL])
                    /\ lastStored' = IF st.ok THEN [lastStored EXCEPT ![p] = cl.apiKey]
                                     ELSE lastStored
         ELSE /\ SetCall(i, Fail(calls[i], "StorageError", "PUT_FAILED", "put"))
              /\ UNCHANGED <<caches, sessions, timers, db, lastStored>>
              /\ emitted' = <<>>
      /\ UNCHANGED <<now, expiredView, ops>>

\* ---- retrieveKey(provider)
CallRetrieveKey(x) ==
  IF ValidateProvider(x) # ""
  THEN Reject("retrieveKey", x, NULL, ValidateProvider(x), ValidateCode(x))
  ELSE \E i \in Slots :
         /\ Admit(i, x)
         /\ LET cachedKey == GetApiKey(Reg, x)
            IN IF cachedKey # NULL /\ cachedKey # ""
               THEN /\ Commit(ExtendSession(Reg, x))
                    /\ SetCall(i, Succeed([NewCall("retrieveKey", x) EXCEPT
                                             !.preCached = cachedKey], cachedKey))
               ELSE /\ SetCall(i, [NewCall("retrieveKey", x) EXCEPT !.pc = "rk_get"])
                    /\ UNCHANGED <<caches, sessions, timers>>
                    /\ emitted' = <<>>
         /\ UNCHANGED <<now, expiredView, db, lastStored>>

BeginRetrieveKey == \E x \in ProviderArgs : CallRetrieveKey(x)

RkGet ==
  \E i \in Slots, ok \in BOOLEAN :
    /\ calls[i].pc = "rk_get"
    /\ SetCall(i, AuthGet(i, ok, "rk_auth"))
    /\ UNCHANGED <<now, caches, sessions, timers, expiredView, db, lastStored, ops>>
    /\ emitted' = <<>>

RkAuth ==
  \E i \in Slots, outcome \in CeremonyOutcomes :
    /\ calls[i].pc = "rk_auth"
    /\ SetCall(i, AuthResult(i, outcome, "rk_get2"))
    /\ UNCHANGED <<now, caches, sessions, timers, expiredView, db, lastStored, ops>>
    /\ emitted' = <<>>

\* if (!record || !record.encrypted) throw new ValidationError(NoStoredKey)
NoStoredKey == "No stored key found"

NoStoredKeyError(cl) ==
  [Fail(cl, "ValidationError", "VALIDATION_ERROR", "nokey") EXCEPT
     !.errMsg = NoStoredKey]

\* const record = await storage.get(provider); if (!record || !record.encrypted) throw
RkGet2 ==
  \E i \in Slots, ok \in BOOLEAN :
    LET p == calls[i].provider IN
    /\ calls[i].pc = "rk_get2"
    /\ SetCall(i,
         IF ~ok THEN Fail(calls[i], "StorageError", "GET_FAILED", "get2")
         ELSE IF ~db[p].exists \/ db[p].encrypted = NoCipher
         THEN NoStoredKeyError([calls[i] EXCEPT !.gets = @ + 1])
         ELSE [calls[i] EXCEPT !.gets = @ + 1,
                               !.keyBuffer = db[p].encKeyMaterial,
                               !.iv = db[p].iv,
                               !.encrypted = db[p].encrypted,
                               !.pc = "rk_import"])
    /\ UNCHANGED <<now, caches, sessions, timers, expiredView, db, lastStored, ops>>
    /\ emitted' = <<>>

\* await keyManager.importKey(record.encKeyMaterial)
RkImport ==
  \E i \in Slots, ok \in BOOLEAN :
    /\ calls[i].pc = "rk_import"
    /\ SetCall(i, IF ok
                  THEN [calls[i] EXCEPT
                          !.key = [raw |-> calls[i].keyBuffer, extractable |-> FALSE],
                          !.pc = "rk_decrypt"]
                  ELSE Fail(calls[i], "CryptoError", "KEY_IMPORT_FAILED", "import"))
    /\ UNCHANGED <<now, caches, sessions, timers, expiredView, db, lastStored, ops>>
    /\ emitted' = <<>>

\* await keyManager.decryptApiKey(...); sessionManager.startSession(...)
RkDecrypt ==
  \E i \in Slots, ok \in BOOLEAN :
    \E pad \in Pads(Len(calls[i].encrypted.pt)) :
      LET p == calls[i].provider
          cl == calls[i]
      IN
      /\ cl.pc = "rk_decrypt"
      /\ IF ok /\ CanDecrypt(cl.encrypted, cl.iv, cl.key)
         THEN /\ CanAllocate(EndSession(Reg, p))
              /\ LET apiKey == Decode(cl.encrypted.pt)
                     st == StartSession(Reg, p, apiKey, DefaultDuration, pad)
                 IN /\ Commit(st.r)
                    /\ SetCall(i, Started([cl EXCEPT !.decrypts = @ + 1,
                                                     !.decAuthed = (cl.authOk # 0)],
                                          st, p, apiKey))
         ELSE /\ SetCall(i, Fail(cl, "CryptoError", "DECRYPTION_FAILED", "decrypt"))
              /\ UNCHANGED <<caches, sessions, timers>>
              /\ emitted' = <<>>
      /\ UNCHANGED <<now, expiredView, db, lastStored, ops>>

\* ---- deleteProvider(provider)
CallDeleteProvider(x) ==
  IF ValidateProvider(x) # ""
  THEN Reject("deleteProvider", x, NULL, ValidateProvider(x), ValidateCode(x))
  ELSE \E i \in Slots :
         /\ Admit(i, x)
         /\ Commit(EndSession(Reg, x))
         /\ SetCall(i, [NewCall("deleteProvider", x) EXCEPT
                          !.pc = "dp_delete", !.mutSess = HasSession(Reg, x)])
         /\ UNCHANGED <<now, expiredView, db, lastStored>>

BeginDeleteProvider == \E x \in ProviderArgs : CallDeleteProvider(x)

\* await storage.delete(provider)
DpDelete ==
  \E i \in Slots, ok \in BOOLEAN :
    LET p == calls[i].provider IN
    /\ calls[i].pc = "dp_delete"
    /\ IF ok
       THEN /\ db' = StorageDelete(db, p)
            /\ SetCall(i, Succeed([calls[i] EXCEPT !.mutRec = db[p].exists], NULL))
       ELSE /\ SetCall(i, Fail(calls[i], "StorageError", "DELETE_FAILED", "delete"))
            /\ UNCHANGED db
    /\ UNCHANGED <<now, caches, sessions, timers, expiredView, lastStored, ops>>
    /\ emitted' = <<>>

\* ---- lockSession(provider) / lockAllSessions()
LockSessionOn(p) ==
  /\ Quiet
  /\ Commit(EndSession(Reg, p))
  /\ UNCHANGED <<now, expiredView, db, calls, lastStored, ops>>

LockSession == \E p \in Providers : LockSessionOn(p)

LockAllSessions ==
  /\ Quiet
  /\ Commit(EndAllSessions(Reg))
  /\ UNCHANGED <<now, expiredView, db, calls, lastStored, ops>>

\* ------------------------------------------------------------------- Init
Init ==
  /\ now = 1
  /\ caches = [c \in CacheIds |-> NewCacheState]
  /\ sessions = [p \in Names |-> NoSession]
  /\ timers = {}
  /\ emitted = <<>>
  /\ expiredView = NoView
  /\ db = [p \in Names |-> NoRecord]
  /\ calls = [i \in Slots |-> IdleCall]
  /\ lastStored = [p \in Names |-> NULL]
  /\ ops = 0

NextCache == CacheNew \/ CacheStore \/ CacheResetTimer \/ CacheClear \/ Fire \/ Tick

SpecCache == Init /\ [][NextCache]_vars

NextRegistry ==
  RegStartSession \/ RegExtendSession \/ RegEndSession \/ RegEndAllSessions
    \/ Fire \/ Tick

SpecRegistry == Init /\ [][NextRegistry]_vars

Next ==
  \/ BeginCreatePasskey \/ CpCreate \/ CpPut
  \/ BeginStoreKey \/ SkGet \/ SkAuth \/ SkGet2 \/ SkGen \/ SkExport \/ SkEncrypt \/ SkPut
  \/ BeginRetrieveKey \/ RkGet \/ RkAuth \/ RkGet2 \/ RkImport \/ RkDecrypt
  \/ BeginDeleteProvider \/ DpDelete
  \/ Return
  \/ LockSession \/ LockAllSessions
  \/ Fire \/ Tick

Spec == Init /\ [][Next]_vars

\* the facade called with arguments of every kind, the clock standing still
AnyCreatePasskey == \E x \in AnyArgs : CallCreatePasskey(x)

AnyStoreKey ==
  \E x \in AnyArgs, k \in {"sk-a", LoneSurrogate, "", NotAString} : CallStoreKey(x, k)

AnyRetrieveKey == \E x \in AnyArgs : CallRetrieveKey(x)

AnyDeleteProvider == \E x \in AnyArgs : CallDeleteProvider(x)

NextValidate ==
  \/ AnyCreatePasskey \/ CpCreate \/ CpPut
  \/ AnyStoreKey \/ SkGet \/ SkAuth \/ SkGet2 \/ SkGen \/ SkExport \/ SkEncrypt \/ SkPut
  \/ AnyRetrieveKey \/ RkGet \/ RkAuth \/ RkGet2 \/ RkImport \/ RkDecrypt
  \/ AnyDeleteProvider \/ DpDelete
  \/ LockAllSessions
  \/ Return

SpecValidate == Init /\ [][NextValidate]_vars

\* -------------------------------------- PasskeyService used on its own
\* a service call rejects with the error e = <<class, code, message>>
PsReject(cl, e) ==
  [cl EXCEPT !.pc = "done", !.status = "error",
             !.errClass = e[1], !.errCode = e[2], !.errMsg = e[3]]

\* authenticate(credentialId, challenge) up to navigator.credentials.get
PsAuthenticate ==
  \E i \in Slots, supported \in BOOLEAN, credentialId \in {0, 1} :
    /\ FreeSlot(i)
    /\ LET cl == [IdleCall EXCEPT !.op = "authenticate", !.status = "pending",
                                  !.supported = supported, !.cred = credentialId]
       IN SetCall(i, IF ~supported THEN PsReject(cl, WebAuthnNotSupported)
                     ELSE IF credentialId = 0 THEN PsReject(cl, MissingCredentialId)
                     ELSE [cl EXCEPT !.pc = "ps_get", !.authCalls = 1])
    /\ UNCHANGED <<now, caches, sessions, timers, expiredView, db, lastStored, ops>>
    /\ emitted' = <<>>

\* the ceremony ends: return assertion, or the catch block
PsGet ==
  \E i \in Slots, outcome \in PlatformOutcomes :
    /\ calls[i].pc = "ps_get"
    /\ LET cl == [calls[i] EXCEPT !.platform = outcome]
       IN SetCall(i, IF outcome = "ok"
                     THEN [cl EXCEPT !.pc = "done", !.status = "ok", !.authOk = cl.cred]
                     ELSE PsReject(cl, AuthenticateError(outcome)))
    /\ UNCHANGED <<now, caches, sessions, timers, expiredView, db, lastStored, ops>>
    /\ emitted' = <<>>

\* createCredential(provider, challenge) up to navigator.credentials.create
PsCreateCredential ==
  \E i \in Slots, supported \in BOOLEAN :
    /\ FreeSlot(i)
    /\ LET cl == [IdleCall EXCEPT !.op = "createCredential", !.status = "pending",
                                  !.supported = supported]
       IN SetCall(i, IF ~supported THEN PsReject(cl, WebAuthnNotSupported)
                     ELSE [cl EXCEPT !.pc = "ps_create", !.authCalls = 1])
    /\ UNCHANGED <<now, caches, sessions, timers, expiredView, db, lastStored, ops>>
    /\ emitted' = <<>>

PsCreate ==
  \E i \in Slots, outcome \in PlatformOutcomes :
    /\ calls[i].pc = "ps_create"
    /\ LET cl == [calls[i] EXCEPT !.platform = outcome]
       IN SetCall(i, IF outcome = "ok"
                     THEN [cl EXCEPT !.pc = "done", !.status = "ok", !.cred = 1]
                     ELSE PsReject(cl, CreateCredentialError(outcome)))
    /\ UNCHANGED <<now, caches, sessions, timers, expiredView, db, lastStored, ops>>
    /\ emitted' = <<>>

NextPasskey == PsAuthenticate \/ PsGet \/ PsCreateCredential \/ PsCreate \/ Return

SpecPasskey == Init /\ [][NextPasskey]_vars

\* ------------------------------------- SessionManager with acting listeners
\* SessionManager.on(event, callback): a listener registered for one of the
\* registry's events whose callback calls back into the registry, on the
\* provider of the event; the calls a callback makes emit in turn, and the
\* listener lets those pass
ListenEvents == {"started", "ended", "expired"}
NoListener == [on |-> "", do |-> "none"]
Listeners == {NoListener} \cup [on : ListenEvents, do : {"start", "extend", "end"}]

\* the provider whose sessions are started, ended and listened to
ListenerProviders == {"openai"}

\* the secret a listener starts a session with
ListenerSecret == "sk-b"

\* callback(data) of the listener l for the event name about provider p;
\* fit = FALSE when it would need more SecureCache instances than CacheIds
React(r, l, name, p, pad) ==
  IF l.on # name \/ l.do = "none" THEN [fit |-> TRUE, r |-> r]
  ELSE IF l.do = "start"
  THEN IF CanAllocate(EndSession(r, p))
       THEN [fit |-> TRUE,
             r |-> StartSession(r, p, ListenerSecret, DefaultDuration, pad).r]
       ELSE [fit |-> FALSE, r |-> r]
  ELSE IF l.do = "extend" THEN [fit |-> TRUE, r |-> ExtendSession(r, p)]
  ELSE [fit |-> TRUE, r |-> EndSession(r, p)]

\* SessionManager.endSession(provider): clear, delete, emit('ended')
EndSessionL(r, p, l, pad) ==
  IF r.sessions[p].cache = 0 THEN [fit |-> TRUE, r |-> r]
  ELSE React(EndSession(r, p), l, "ended", p, pad)

\* SessionManager.startSession(provider, apiKey, duration): endSession,
\* new SecureCache(), store, sessions.set, emit('started')
StartSessionL(r, p, apiKey, duration, pad, l) ==
  LET e == EndSessionL(r, p, l, pad)
  IN IF ~e.fit \/ ~CanAllocate(e.r) THEN [fit |-> FALSE, r |-> r]
     ELSE LET c == NewSecureCache(e.r, p)
              st == Store(Constructor(e.r, c), c, apiKey, duration, p, pad)
          IN IF ~st.ok THEN [fit |-> TRUE, r |-> st.r]
             ELSE React(Emit([st.r EXCEPT !.sessions[p] =
                                [cache |-> c, duration |-> duration,
                                 startTime |-> now]],
                             "started", p, duration),
                        l, "started", p, pad)

\* SessionManager.endAllSessions(): endSession for Array.from(sessions.keys())
RECURSIVE EndEachL(_, _, _, _)
EndEachL(x, ps, l, pad) ==
  IF ps = {} THEN x
  ELSE LET p == CHOOSE q \in ps : TRUE
           y == EndSessionL(x.r, p, l, pad)
       IN EndEachL([fit |-> x.fit /\ y.fit, r |-> y.r], ps \ {p}, l, pad)

EndAllSessionsL(r, l, pad) ==
  LET x == EndEachL([fit |-> TRUE, r |-> r],
                    {p \in Names : r.sessions[p].cache # 0}, l, pad)
  IN [fit |-> x.fit, r |-> Emit(x.r, "cleared", "", 0)]

\* the onExpire closure: emit('expired'), then sessions.delete(provider)
OnExpireL(r, p, l, pad) ==
  LET x == React(Emit(r, "expired", p, 0), l, "expired", p, pad)
  IN [fit |-> x.fit, r |-> [x.r EXCEPT !.sessions[p] = NoSession],
      view |-> View(r, p)]

\* the setTimeout callback of resetTimer: this.clear(); if (onExpire) onExpire()
TimerCallbackL(r, t, l, pad) ==
  LET r1 == ExpireCache([r EXCEPT !.timers = r.timers \ {t}], t.cache)
  IN IF t.cb = "" THEN [fit |-> TRUE, r |-> r1, view |-> NoView]
     ELSE OnExpireL(r1, t.cb, l, pad)

LsStartSession ==
  \E p \in ListenerProviders, d \in Durations, l \in Listeners :
    \E pad \in Pads(1) :
      LET x == StartSessionL(Reg, p, "sk-a", d, pad, l)
      IN /\ x.fit
         /\ Commit(x.r)
         /\ UNCHANGED <<now, expiredView, db, calls, lastStored, ops>>

LsExtendSession == \E p \in ListenerProviders : RegExtendSessionOn(p)

LsEndSession ==
  \E p \in ListenerProviders, l \in Listeners :
    \E pad \in Pads(1) :
      LET x == EndSessionL(Reg, p, l, pad)
      IN /\ x.fit
         /\ Commit(x.r)
         /\ UNCHANGED <<now, expiredView, db, calls, lastStored, ops>>

LsEndAllSessions ==
  \E l \in Listeners :
    \E pad \in Pads(1) :
      LET x == EndAllSessionsL(Reg, l, pad)
      IN /\ x.fit
         /\ Commit(x.r)
         /\ UNCHANGED <<now, expiredView, db, calls, lastStored, ops>>

LsFire ==
  \E t \in timers, l \in Listeners :
    \E pad \in Pads(1) :
      LET x == TimerCallbackL(Reg, t, l, pad)
      IN /\ t.at <= now
         /\ x.fit
         /\ Commit(x.r)
         /\ expiredView' = IF t.cb = "" THEN expiredView ELSE x.view
         /\ UNCHANGED <<now, db, calls, lastStored, ops>>

NextListeners ==
  LsStartSession \/ LsExtendSession \/ LsEndSession \/ LsEndAllSessions
    \/ LsFire \/ Tick

SpecListeners == Init /\ [][NextListeners]_vars

\* the same registry within the time the clock covers: a session is
\* started or extended only while its deadline is at most MaxTime, so every
\* timer comes due; the host runs due timers and time advances (fairness)
LvStartSession == LsStartSession /\ (\A t \in timers' : t.at <= MaxTime)

LvExtendSession == LsExtendSession /\ (\A t \in timers' : t.at <= MaxTime)

LvEndSession == LsEndSession /\ (\A t \in timers' : t.at <= MaxTime)

LvEndAllSessions == LsEndAllSessions /\ (\A t \in timers' : t.at <= MaxTime)

LvFire == LsFire /\ (\A t \in timers' : t.at <= MaxTime)

NextLive ==
  LvStartSession \/ LvExtendSession \/ LvEndSession \/ LvEndAllSessions
    \/ LvFire \/ Tick

SpecLive ==
  Init /\ [][NextLive]_vars /\ WF_vars(Tick) /\ WF_vars(LvFire)

\* ------------------------------ facade calls overlapping on one provider
\* the facade takes no lock: a second call on a provider is admitted while
\* the first is suspended at an await
OverlapProviders == {"openai"}

\* the object store as an earlier page load left it: a passkey created and
\* 'sk-a' stored for the providers in use
StoredRecord(p) ==
  KeyRecord(Fresh(p, {}), Fresh(p, {}), Fresh(p, {}),
            [pt |-> Encode("sk-a"), raw |-> Fresh(p, {}), iv |-> Fresh(p, {})])

InitStored ==
  /\ now = 1
  /\ caches = [c \in CacheIds |-> NewCacheState]
  /\ sessions = [p \in Names |-> NoSession]
  /\ timers = {}
  /\ emitted = <<>>
  /\ expiredView = NoView
  /\ db = [p \in Names |-> IF p \in OverlapProviders THEN StoredRecord(p) ELSE NoRecord]
  /\ calls = [i \in Slots |-> IdleCall]
  /\ lastStored = [p \in Names |-> IF p \in OverlapProviders THEN "sk-a" ELSE NULL]
  /\ ops = 0

AdmitOverlap(i) ==
  /\ Quiet /\ FreeSlot(i)
  /\ ops < MaxOps
  /\ ops' = ops + 1

\* storeKey(provider, apiKey) up to its first await
OvStoreKey ==
  \E p \in OverlapProviders, i \in Slots :
    /\ AdmitOverlap(i)
    /\ SetCall(i, [NewCall("storeKey", p) EXCEPT !.pc = "sk_get", !.apiKey = "sk-b"])
    /\ UNCHANGED <<now, caches, sessions, timers, expiredView, db, lastStored>>
    /\ emitted' = <<>>

\* retrieveKey(provider) up to its first await, or its cached return
OvRetrieveKey ==
  \E p \in OverlapProviders, i \in Slots :
    /\ AdmitOverlap(i)
    /\ LET cachedKey == GetApiKey(Reg, p)
       IN IF cachedKey # NULL /\ cachedKey # ""
          THEN /\ Commit(ExtendSession(Reg, p))
               /\ SetCall(i, Succeed([NewCall("retrieveKey", p) EXCEPT
                                        !.preCached = cachedKey], cachedKey))
          ELSE /\ SetCall(i, [NewCall("retrieveKey", p) EXCEPT !.pc = "rk_get"])
               /\ UNCHANGED <<caches, sessions, timers>>
               /\ emitted' = <<>>
    /\ UNCHANGED <<now, expiredView, db, lastStored>>

\* deleteProvider(provider) up to its await of storage.delete
OvDeleteProvider ==
  \E p \in OverlapProviders, i \in Slots :
    /\ AdmitOverlap(i)
    /\ Commit(EndSession(Reg, p))
    /\ SetCall(i, [NewCall("deleteProvider", p) EXCEPT
                     !.pc = "dp_delete", !.mutSess = HasSession(Reg, p)])
    /\ UNCHANGED <<now, expiredView, db, lastStored>>

NextOverlap ==
  \/ OvStoreKey \/ SkGet \/ SkAuth \/ SkGet2 \/ SkGen \/ SkExport \/ SkEncrypt \/ SkPut
  \/ OvRetrieveKey \/ RkGet \/ RkAuth \/ RkGet2 \/ RkImport \/ RkDecrypt
  \/ OvDeleteProvider \/ DpDelete
  \/ Return
  \/ Fire \/ Tick

SpecOverlap == InitStored /\ [][NextOverlap]_vars

\* ------------------------------------------------------------- properties
Done(i) == calls[i].pc = "done"

\* C1: while the session that a successful storeKey(p, k) started is live,
\* retrieveKey(p) returns k without invoking the authenticator and without
\* reading or decrypting the durable record
C1_FastPath ==
  \A i \in Slots :
    (Done(i) /\ calls[i].op = "retrieveKey" /\ calls[i].preLive)
      => /\ calls[i].status = "ok"
         /\ calls[i].value = lastStored[calls[i].provider]
         /\ calls[i].value = calls[i].preCached
         /\ calls[i].authCalls = 0
         /\ calls[i].gets = 0
         /\ calls[i].decrypts = 0

C1_Witness ==
  \E i \in Slots :
    /\ Done(i) /\ calls[i].op = "retrieveKey" /\ calls[i].preLive
    /\ calls[i].status = "ok" /\ calls[i].value \in Secrets
    /\ calls[i].value = lastStored[calls[i].provider]

\* C2: a retrieveKey that returns plaintext either found a live session or
\* completed, in that call and before decrypting, a successful authenticate
\* against the provider's recorded credentialId; no facade call reaches
\* startSession without a successful authenticate in the same call
C2_AuthBeforePlaintext ==
  \A i \in Slots :
    /\ (Done(i) /\ calls[i].op = "retrieveKey" /\ calls[i].status = "ok")
         => \/ calls[i].preLive
            \/ /\ calls[i].authOk # 0
               /\ calls[i].authOk = db[calls[i].provider].credentialId
               /\ calls[i].decrypts = 1
               /\ calls[i].decAuthed
    /\ calls[i].decrypts > 0 => calls[i].decAuthed
    /\ calls[i].starts > 0 => calls[i].startAuthed

C2_Witness ==
  \E i \in Slots :
    /\ Done(i) /\ calls[i].op = "retrieveKey" /\ calls[i].status = "ok"
    /\ ~calls[i].preLive
    /\ calls[i].authOk # 0 /\ calls[i].decAuthed
    /\ calls[i].starts = 1 /\ calls[i].startAuthed

C4_StoreAlwaysAuthenticates ==
  \A i \in Slots :
    (/\ calls[i].op = "storeKey"
     /\ calls[i].pc \notin {"sk_get"}
     /\ calls[i].failedAt \notin {"validate", "get", "nocred"})
      => calls[i].authCalls = 1

C4_Witness ==
  \E i \in Slots :
    /\ Done(i) /\ calls[i].op = "storeKey" /\ calls[i].status = "ok"
    /\ calls[i].preLive
    /\ calls[i].authCalls = 1

\* C5: after any registry operation or expiry callback has returned, the
\* map has an entry for p exactly when p's cache holds a value, and
\* hasSession(p) is that boolean
C5_EntryIffValue ==
  /\ \A p \in Names :
       /\ HasSession(Reg, p) <=> sessions[p] # NoSession
       /\ HasSession(Reg, p)
            => /\ Has(caches[sessions[p].cache])
               /\ Retrieve(caches[sessions[p].cache]) # NULL
  /\ \A c \in CacheIds :
       Has(caches[c]) => \E p \in Names : sessions[p].cache = c

C5_Witness ==
  /\ expiredView.provider # ""
  /\ ~HasSession(Reg, expiredView.provider)
  /\ \E p \in Names : HasSession(Reg, p) /\ GetApiKey(Reg, p) # NULL

\* C6: inside an 'expired' listener hasSession(p) is false,
\* getSessionInfo(p) is null and getApiKey(p) is null
C6_ExpiredListenerSeesNoSession ==
  expiredView.provider # ""
    => /\ ~expiredView.hasSession
       /\ expiredView.infoNull
       /\ expiredView.apiKey = NULL

\* C7: after store(v, ttl), retrieve() = v and has() holds until ttl has
\* elapsed (the store stands no longer than its deadline), and both are
\* null/false once the timer has run; has() holds exactly when retrieve()
\* is non-null; a held value always has its pending timer
C7_CacheTtl ==
  \A c \in CacheIds :
    LET cs == caches[c]
        live == Retrieve(cs) = cs.sv /\ Has(cs) /\ Pending(c, cs.timer) \in timers
        gone == Retrieve(cs) = NULL /\ ~Has(cs)
    IN /\ Has(cs) <=> Retrieve(cs) # NULL
       /\ Has(cs) => cs.timer # NoTimer /\ Pending(c, cs.timer) \in timers
       /\ cs.sat # 0
            => /\ live
               /\ cs.timer.at = cs.sat + cs.sttl
               /\ now <= cs.sat + cs.sttl
       /\ cs.expired => gone

C7_Witness ==
  /\ \E c \in CacheIds :
       /\ caches[c].expired
       /\ Retrieve(caches[c]) = NULL /\ ~Has(caches[c])
  /\ \E c \in CacheIds :
       /\ caches[c].sat # 0 /\ now < caches[c].sat + caches[c].sttl
       /\ Retrieve(caches[c]) = caches[c].sv /\ Has(caches[c])

\* C8: a live session expires exactly its duration after the most recent
\* startSession/extendSession: its cache has exactly one pending timer, due
\* at startTime + duration, and no timer of a replaced or ended session is
\* left pending
C8_SingleTimer ==
  /\ \A p \in Names :
       HasSession(Reg, p)
         => LET c == sessions[p].cache
                due == sessions[p].startTime + sessions[p].duration
            IN /\ caches[c].timer = [at |-> due, cb |-> p]
               /\ {t \in timers : t.cache = c} = {Pending(c, caches[c].timer)}
               /\ now <= due
  /\ \A t \in timers : \E p \in Names : sessions[p].cache = t.cache

C8_Witness ==
  \E p \in Names :
    /\ HasSession(Reg, p)
    /\ sessions[p].startTime > caches[sessions[p].cache].created
    /\ now = sessions[p].startTime + 1
    /\ GetApiKey(Reg, p) # NULL

\* C9: a facade operation that fails leaves the provider's record and
\* session exactly as they were before the call
C9_FailureLeavesStateUntouched ==
  \A i \in Slots :
    (/\ Done(i) /\ calls[i].status = "error"
     /\ calls[i].op \in {"createPasskey", "storeKey", "retrieveKey", "deleteProvider"})
      => ~calls[i].mutRec /\ ~calls[i].mutSess

\* C10: a storeKey that fails at authentication, key generation, key export
\* or encryption has called neither storage.put nor startSession
C10_NoWriteBeforeEncrypt ==
  \A i \in Slots :
    (/\ calls[i].op = "storeKey"
     /\ calls[i].failedAt \in {"auth", "gen", "export", "encrypt"})
      => /\ calls[i].puts = 0
         /\ calls[i].starts = 0
         /\ ~calls[i].mutRec
         /\ ~calls[i].mutSess

C10_Witness ==
  \E i \in Slots :
    /\ Done(i) /\ calls[i].op = "storeKey"
    /\ calls[i].failedAt = "encrypt"
    /\ calls[i].preLive
    /\ calls[i].puts = 0 /\ calls[i].starts = 0
    /\ GetApiKey(Reg, calls[i].provider) = lastStored[calls[i].provider]

\* C11: a call whose provider argument is missing, not a string or not a
\* configured provider, and a storeKey whose secret is empty or not a
\* string, rejects in validation: no authenticator call, no storage read or
\* write, no session change
KnownProvider(x) == x # NotAString /\ ToLowerCase(x) \in Providers

C11_ValidationBeforeEffects ==
  \A i \in Slots :
    (/\ calls[i].op # "none"
     /\ \/ ~KnownProvider(calls[i].provider)
        \/ calls[i].op = "storeKey" /\ ~ValidApiKey(calls[i].apiKey))
      => /\ calls[i].pc = "done"
         /\ calls[i].failedAt = "validate"
         /\ calls[i].errClass \in {"ValidationError", "ProviderError"}
         /\ calls[i].authCalls = 0 /\ calls[i].gets = 0 /\ calls[i].puts = 0
         /\ calls[i].starts = 0 /\ ~calls[i].mutRec /\ ~calls[i].mutSess

\* C12: lockSession(p) and lockAllSessions() leave every durable record as
\* it was, and afterwards hasSession is false and getApiKey is null for p
\* (lockAllSessions: for every provider, and no expiry timer is left)
RegNext ==
  [caches |-> caches', sessions |-> sessions', timers |-> timers', events |-> <<>>]

C12_LockStep ==
  /\ \A p \in Providers :
       LockSessionOn(p)
         => /\ db' = db
            /\ ~HasSession(RegNext, p)
            /\ GetApiKey(RegNext, p) = NULL
            /\ \A q \in Names \ {p} : sessions'[q] = sessions[q]
  /\ LockAllSessions
       => /\ db' = db
          /\ \A p \in Names : ~HasSession(RegNext, p) /\ GetApiKey(RegNext, p) = NULL
          /\ timers' = {}

C12_LockTouchesNoStorage == [][C12_LockStep]_vars

C12_Witness ==
  \E p \in Providers :
    /\ now = 1
    /\ \A i \in Slots : calls[i].pc = "idle"
    /\ lastStored[p] # NULL
    /\ db[p].encrypted.pt = Encode(lastStored[p])
    /\ ~HasSession(Reg, p) /\ GetApiKey(Reg, p) = NULL

C14_SessionImpliesSecret ==
  \A p \in Names :
    (HasSession(Reg, p) /\ Serialized(p))
      => /\ db[p].exists
         /\ db[p].encrypted # NoCipher
         /\ GetApiKey(Reg, p) # NULL
         /\ Encode(GetApiKey(Reg, p)) = db[p].encrypted.pt

\* C15: in every stored record the ciphertext, the iv and the exported key
\* material are all present or all absent
C15_CipherFieldsTogether ==
  \A p \in Names :
    /\ (db[p].encrypted # NoCipher) = (db[p].iv # 0)
    /\ (db[p].iv # 0) = (db[p].encKeyMaterial # 0)
    /\ ~db[p].exists => db[p] = NoRecord

\* one record written by storeKey next to one written by createPasskey
C15_Witness ==
  \E p, q \in Providers :
    /\ db[p].exists /\ db[p].encrypted # NoCipher
    /\ db[p].iv # 0 /\ db[p].encKeyMaterial # 0
    /\ db[q].exists /\ db[q].encrypted = NoCipher
    /\ db[q].iv = 0 /\ db[q].encKeyMaterial = 0

\* C16: a storeKey on a provider with no credentialId on record fails with
\* the no-credential error, having called neither the authenticator nor
\* encryptApiKey nor storage.put; and no record holds ciphertext without a
\* credentialId
C16_NoCredentialNoEncryption ==
  /\ \A i \in Slots :
       (/\ calls[i].op = "storeKey"
        /\ calls[i].provider \in Names
        /\ ~HasCredential(db[calls[i].provider])
        /\ calls[i].pc # "sk_get"
        /\ calls[i].failedAt \notin {"validate", "get"})
         => /\ calls[i].pc = "done" /\ calls[i].status = "error"
            /\ calls[i].errMsg = "No passkey found - create one first"
            /\ calls[i].authCalls = 0 /\ calls[i].encrypts = 0
            /\ calls[i].puts = 0 /\ calls[i].starts = 0
            /\ ~calls[i].mutRec
  /\ \A p \in Names :
       db[p].encrypted # NoCipher => db[p].exists /\ db[p].credentialId # 0

\* a storeKey that read the storage and found no credential, next to a
\* record that holds ciphertext
C16_Witness ==
  \E i \in Slots, q \in Providers :
    /\ calls[i].op = "storeKey" /\ calls[i].pc = "done"
    /\ calls[i].failedAt = "nocred" /\ calls[i].gets = 1
    /\ ~db[calls[i].provider].exists
    /\ db[q].encrypted # NoCipher

\* C17: a retrieveKey that finds no live session and no record, or a record
\* without ciphertext, fails with the no-stored-secret error, whose class
\* and code differ from those of the no-credential error; it starts no
\* session and leaves the record as it was
C17_NoStoredSecret ==
  \A i \in Slots :
    (/\ calls[i].op = "retrieveKey"
     /\ calls[i].provider \in Names
     /\ calls[i].preCached = NULL
     /\ \/ ~db[calls[i].provider].exists
        \/ db[calls[i].provider].encrypted = NoCipher
     /\ calls[i].pc = "done"
     /\ calls[i].failedAt \notin {"validate", "get", "auth", "get2"})
      => /\ calls[i].status = "error"
         /\ calls[i].errMsg = "No stored key found"
         /\ <<calls[i].errClass, calls[i].errCode>>
              # <<NoCredentialError(IdleCall).errClass, NoCredentialError(IdleCall).errCode>>
         /\ calls[i].starts = 0 /\ ~calls[i].mutRec /\ ~calls[i].mutSess

\* C18: a retrieveKey that resolves, from the session cache or by
\* authenticate + importKey + decrypt, returns exactly the secret of the
\* latest successful storeKey on that provider
C18_RoundTrip ==
  \A i \in Slots :
    (/\ calls[i].op = "retrieveKey"
     /\ calls[i].pc = "done" /\ calls[i].status = "ok"
     /\ calls[i].provider \in Names
     /\ lastStored[calls[i].provider] # NULL)
      => calls[i].value = lastStored[calls[i].provider]

\* C19: a facade call rejects with the class and code of the error its
\* failing collaborator raised; a retrieveKey whose decrypt fails rejects
\* with CryptoError DECRYPTION_FAILED, not with the 'no stored key' error,
\* yields no plaintext and starts no session
C19_ErrorsPropagateUnchanged ==
  \A i \in Slots :
    calls[i].status = "error" =>
      LET e == <<calls[i].errClass, calls[i].errCode>>
          at == calls[i].failedAt
      IN /\ at \in {"create", "auth"}
              => e \in {<<"AuthenticationError", "AUTHENTICATION_ERROR">>,
                        <<"PasskeyError", "INVALID_STATE">>}
         /\ at \in {"get", "get2"} => e = <<"StorageError", "GET_FAILED">>
         /\ at = "put" => e = <<"StorageError", "PUT_FAILED">>
         /\ at = "delete" => e = <<"StorageError", "DELETE_FAILED">>
         /\ at = "gen" => e = <<"CryptoError", "KEY_GENERATION_FAILED">>
         /\ at = "export" => e = <<"CryptoError", "KEY_EXPORT_FAILED">>
         /\ at = "encrypt" => e = <<"CryptoError", "ENCRYPTION_FAILED">>
         /\ at = "import" => e = <<"CryptoError", "KEY_IMPORT_FAILED">>
         /\ at = "decrypt"
              => /\ e = <<"CryptoError", "DECRYPTION_FAILED">>
                 /\ calls[i].errMsg # "No stored key found"
                 /\ calls[i].value = NULL
                 /\ calls[i].decrypts = 0 /\ calls[i].starts = 0
                 /\ ~calls[i].mutSess
                 /\ ~HasSession(Reg, calls[i].provider)

\* an authenticated retrieveKey of a stored secret whose decrypt failed
C19_Witness ==
  \E i \in Slots :
    /\ calls[i].op = "retrieveKey" /\ calls[i].pc = "done"
    /\ calls[i].failedAt = "decrypt" /\ calls[i].authOk # 0
    /\ calls[i].errClass = "CryptoError" /\ calls[i].errCode = "DECRYPTION_FAILED"
    /\ db[calls[i].provider].encrypted # NoCipher

\* C20: every failed createPasskey, storeKey, retrieveKey or deleteProvider
\* call has emitted the error event of its operation, and no success event
C20_ErrorShadowEvents ==
  \A i \in Slots :
    (calls[i].status = "error"
     /\ calls[i].op \in {"createPasskey", "storeKey", "retrieveKey", "deleteProvider"})
      => /\ calls[i].okEvent = ""
         /\ calls[i].op = "createPasskey" => calls[i].errEvent = "passkeyError"
         /\ calls[i].op = "storeKey" => calls[i].errEvent = "keyStoreError"
         /\ calls[i].op = "retrieveKey" => calls[i].errEvent = "keyRetrievalError"
         /\ calls[i].op = "deleteProvider" => calls[i].errEvent # ""

\* the kind of failure an authenticate call was given to meet
AuthenticateKind(cl) ==
  CASE cl.cred = 0 -> "MissingCredential"
    [] cl.platform = "NotAllowedError" -> "UserCancelled"
    [] cl.platform = "InvalidStateError" -> "InvalidState"
    [] cl.platform \in PlatformErrors -> "Unknown"
    [] OTHER -> ""

AuthenticateFailed(cl) ==
  /\ cl.op = "authenticate" /\ cl.pc = "done" /\ cl.status = "error"
  /\ cl.supported /\ AuthenticateKind(cl) # ""

\* C21: the four kinds of failure of authenticate are told apart by class
\* or code: two failed calls of different kinds never carry the same class
\* and code; a missing credential id is rejected without a ceremony
C21_AuthenticateKinds ==
  /\ \A i \in Slots :
       (AuthenticateFailed(calls[i]) /\ AuthenticateKind(calls[i]) = "MissingCredential")
         => calls[i].authCalls = 0
  /\ \A i, j \in Slots :
       (/\ AuthenticateFailed(calls[i]) /\ AuthenticateFailed(calls[j])
        /\ AuthenticateKind(calls[i]) # AuthenticateKind(calls[j]))
         => <<calls[i].errClass, calls[i].errCode>> # <<calls[j].errClass, calls[j].errCode>>

\* the kind of failure a createCredential call was given to meet
CreateCredentialKind(cl) ==
  CASE ~cl.supported -> "NotSupported"
    [] cl.platform = "NotSupportedError" -> "NotSupported"
    [] cl.platform = "NotAllowedError" -> "UserCancelled"
    [] cl.platform = "InvalidStateError" -> "InvalidState"
    [] OTHER -> "Unknown"

CreateCredentialFailed(cl) ==
  cl.op = "createCredential" /\ cl.pc = "done" /\ cl.status = "error"

\* C22: every failure of createCredential is a PasskeyError or an
\* AuthenticationError whose class and code tell its kind (NotSupported,
\* UserCancelled, InvalidState, Unknown); an unknown platform error is
\* wrapped with its message, and no ceremony is started when WebAuthn is
\* not supported
C22_CreateCredentialKinds ==
  /\ \A i \in Slots :
       CreateCredentialFailed(calls[i]) =>
         LET cl == calls[i]
             k == CreateCredentialKind(cl)
         IN /\ cl.errClass \in {"PasskeyError", "AuthenticationError"}
            /\ cl.errClass # cl.platform
            /\ ~cl.supported => cl.authCalls = 0 /\ cl.platform = ""
            /\ k = "NotSupported" => cl.errCode \in {"WEBAUTHN_NOT_SUPPORTED", "NOT_SUPPORTED"}
            /\ k = "UserCancelled" => cl.errCode = "AUTHENTICATION_ERROR"
            /\ k = "InvalidState" => cl.errCode = "INVALID_STATE"
            /\ k = "Unknown" => cl.errCode \in {"CREATION_FAILED", "CREDENTIAL_CREATION_FAILED"}
            /\ cl.platform = "AbortError"
                 => cl.errMsg = "Passkey creation failed: " \o PlatformMessage
  /\ \A i, j \in Slots :
       (/\ CreateCredentialFailed(calls[i]) /\ CreateCredentialFailed(calls[j])
        /\ CreateCredentialKind(calls[i]) # CreateCredentialKind(calls[j]))
         => <<calls[i].errClass, calls[i].errCode>> # <<calls[j].errClass, calls[j].errCode>>

\* one createCredential rejected for a missing capability next to one whose
\* ceremony failed with an error the service has no branch for
C22_Witness ==
  \E i, j \in Slots :
    /\ CreateCredentialFailed(calls[i]) /\ ~calls[i].supported
    /\ calls[i].authCalls = 0
    /\ CreateCredentialFailed(calls[j]) /\ calls[j].platform = "AbortError"
    /\ calls[j].authCalls = 1 /\ calls[j].errCode = "CREATION_FAILED"

\* what the registry holds for one provider: presence, cached secret,
\* duration, startTime and the deadlines of the provider's pending timers
SessionOf(r, p) ==
  [present |-> HasSession(r, p), apiKey |-> GetApiKey(r, p),
   duration |-> r.sessions[p].duration, startTime |-> r.sessions[p].startTime,
   deadline |-> IF HasSession(r, p) THEN r.caches[r.sessions[p].cache].timer.at ELSE 0,
   pending |-> {t.at : t \in {u \in r.timers : u.cb = p}}]

\* the step is a startSession, extendSession, endSession or expiry of q:
\* the registry emitted events, all of them about q
RegistryStepOn(q) ==
  /\ emitted' # <<>>
  /\ \A k \in DOMAIN emitted' : emitted'[k].provider = q

C23_Step ==
  \A q \in Providers :
    RegistryStepOn(q)
      => \A p \in Providers \ {q} : SessionOf(RegNext, p) = SessionOf(Reg, p)

\* C23: startSession, extendSession, endSession and timer expiry on one
\* provider leave every other provider's session as it was: presence,
\* cached secret, duration, startTime and expiry deadline
C23_SessionsIndependent == [][C23_Step]_vars

\* two sessions started together, the shorter one expired, the longer one
\* still live with its secret and its deadline
C23_Witness ==
  \E p, q \in Providers :
    /\ p # q /\ now = 2
    /\ expiredView.provider = q /\ ~HasSession(Reg, q)
    /\ HasSession(Reg, p) /\ GetApiKey(Reg, p) \in Secrets
    /\ sessions[p].startTime = 1 /\ sessions[p].duration = DefaultDuration
    /\ caches[sessions[p].cache].timer.at = 1 + DefaultDuration

\* what one SecureCache instance shows: retrieve(), has(), its pending timer
CacheView(r, c) ==
  [value |-> Retrieve(r.caches[c]), has |-> Has(r.caches[c]),
   pending |-> {t \in r.timers : t.cache = c}]

\* a step that changes what some instance other than c shows is not a
\* construction, store, resetTimer, clear or expiry of c
C24_Step ==
  \A c \in CacheIds :
    (\E d \in CacheIds \ {c} : CacheView(RegNext, d) # CacheView(Reg, d))
      => ~(\/ CacheNewOn(c) \/ CacheStoreOn(c) \/ CacheResetTimerOn(c)
           \/ CacheClearOn(c)
           \/ \E t \in timers : t.cache = c /\ FireTimer(t))

\* C24: two SecureCache instances never share a storage slot: constructing
\* one, and store, clear, resetTimer and expiry on it, never change what
\* another instance returns from retrieve() and has(), nor its pending timer
C24_InstancesIndependent == [][C24_Step]_vars

\* two instances hold the same string at once, one of them constructed
\* anew after an earlier expiry
C24_Witness ==
  \E c, d \in CacheIds :
    /\ c # d
    /\ Retrieve(caches[c]) = "sk-a" /\ Retrieve(caches[d]) = "sk-a"
    /\ caches[c].pad # caches[d].pad
    /\ caches[c].sat < caches[d].sat
    /\ caches[c].timer # NoTimer /\ caches[d].timer # NoTimer

\* the step belongs to provider q: it starts, advances or settles a facade
\* call on q, or it is lockSession(q)
StepOn(q) ==
  \/ \E i \in Slots :
       /\ calls'[i] # calls[i]
       /\ calls[i].provider = q \/ calls'[i].provider = q
  \/ LockSessionOn(q)

\* everything that belongs to provider p is as it was
FrameOf(p) ==
  /\ db'[p] = db[p]
  /\ SessionOf(RegNext, p) = SessionOf(Reg, p)
  /\ lastStored'[p] = lastStored[p]
  /\ \A i \in Slots : calls[i].provider = p => calls'[i] = calls[i]

C25_Step ==
  \A q \in Providers : \A p \in Providers \ {q} : StepOn(q) => FrameOf(p)

\* C25: a step of a facade operation on q, wherever it falls between the
\* awaits of an operation on another provider p, leaves p's record, p's
\* session and p's calls in flight as they were, so p's operations run as
\* they would alone
C25_ProvidersIndependent == [][C25_Step]_vars

\* a storeKey on one provider has resolved while a createPasskey on
\* another, begun meanwhile, still waits for its storage write
C25_Witness ==
  \E i, j \in Slots :
    /\ calls[i].op = "storeKey" /\ calls[i].pc = "done" /\ calls[i].status = "ok"
    /\ calls[j].op = "createPasskey" /\ calls[j].pc = "cp_put"
    /\ calls[j].provider # calls[i].provider
    /\ HasSession(Reg, calls[i].provider)
    /\ db[calls[i].provider].encrypted # NoCipher
    /\ ~db[calls[j].provider].exists

\* the events of the last step that the registry itself emitted
RegistryEvents(es) == SelectSeq(es, LAMBDA e : e.src = "registry")

C26_Step ==
  /\ \A p \in Providers :
       RegExtendSessionOn(p) =>
         IF HasSession(Reg, p)
         THEN /\ RegistryEvents(emitted')
                   = <<Event("registry", "extended", p, sessions[p].duration)>>
              /\ sessions'[p].duration = sessions[p].duration
         ELSE emitted' = <<>> /\ ~HasSession(RegNext, p)
  /\ \A k \in DOMAIN emitted' :
       emitted'[k].name = "started"
         => sessions'[emitted'[k].provider].duration = emitted'[k].duration
  /\ \A p \in Providers :
       (HasSession(Reg, p) /\ sessions'[p].duration # sessions[p].duration)
         => \E k \in DOMAIN emitted' :
              emitted'[k].provider = p /\ emitted'[k].name \in {"started", "ended", "expired"}

\* C26: extendSession on a live session emits 'extended' once, with the
\* provider and the duration the session was started with, however many
\* extensions came before (a session's duration changes only with a new
\* startSession); on a provider without a session it emits nothing and
\* creates no session
C26_ExtendedCarriesDuration == [][C26_Step]_vars

\* an extension at the moment the timer armed by startSession would have
\* run, of a session stored DefaultDuration earlier
C26_Witness ==
  \E p \in Providers :
    /\ HasSession(Reg, p) /\ now = 1 + DefaultDuration
    /\ caches[sessions[p].cache].created = 1
    /\ sessions[p].startTime = now /\ sessions[p].duration = DefaultDuration
    /\ RegistryEvents(emitted) = <<Event("registry", "extended", p, DefaultDuration)>>

\* the facade event that mirrors a registry event
Mirror(e) ==
  CASE e.name = "started" -> Event("facade", "sessionStarted", e.provider, e.duration)
    [] e.name = "extended" -> Event("facade", "sessionExtended", e.provider, e.duration)
    [] e.name = "expired" -> Event("facade", "sessionExpired", e.provider, 0)
    [] OTHER -> Event("facade", "sessionEnded", e.provider, 0)

\* C27: every 'started', 'extended', 'expired' and 'ended' event of the
\* registry is followed at once, in the same call, by the facade's
\* sessionStarted, sessionExtended, sessionExpired or sessionEnded event
\* with the same provider and, for the first two, the same duration
C27_FacadeMirrorsRegistry ==
  \A k \in DOMAIN emitted :
    (emitted[k].src = "registry"
     /\ emitted[k].name \in {"started", "extended", "expired", "ended"})
      => /\ k + 1 \in DOMAIN emitted
         /\ emitted[k + 1] = Mirror(emitted[k])

\* the cache c has just been armed for ms by resetTimer while holding a value
RearmedFor(c, ms) ==
  /\ caches[c].held
  /\ now' = now
  /\ caches'[c] # caches[c]
  /\ caches'[c] = ResetTimer(Reg, c, ms, "").caches[c]

\* the cache c has just stored a value with its timer armed for ms
StoredFor(c, ms) ==
  /\ now' = now
  /\ caches'[c] # caches[c]
  /\ caches'[c].held
  /\ caches'[c].sat = now
  /\ caches'[c].sttl = ms

C28_ZeroWhenEmpty ==
  \A c \in CacheIds : \A ms \in Durations :
    (caches[c] = NewCacheState \/ caches[c].expired)
      => GetTimeRemaining(caches[c], ms) = 0

C28_StoreArmsFull ==
  \A c \in CacheIds : \A ms \in Durations :
    StoredFor(c, ms) => GetTimeRemaining(caches'[c], ms) = ms

C28_RearmInRange ==
  \A c \in CacheIds : \A ms \in Durations :
    RearmedFor(c, ms) => GetTimeRemaining(caches'[c], ms) \in 1..ms

C28_Step == C28_ZeroWhenEmpty /\ C28_StoreArmsFull /\ C28_RearmInRange

\* C28: getTimeRemaining(total) is 0 for a cache that never stored, was
\* cleared or has expired, and lies in (0, total] for a cache that holds a
\* value and whose timer has just been armed for total, by store or by a
\* later resetTimer
C28_TimeRemaining == [][C28_Step]_vars

\* call i is a storeKey that in this step wrote its record and resolved
StoreKeySucceeds(i) ==
  /\ calls[i].op = "storeKey"
  /\ calls[i].pc = "sk_put"
  /\ calls'[i].puts = calls[i].puts + 1
  /\ calls'[i].status = "ok"

C29_Step ==
  \A i \in Slots :
    StoreKeySucceeds(i) =>
      LET p == calls[i].provider IN
      /\ db'[p].credentialId = db[p].credentialId
      /\ db'[p].created = db[p].created

\* C29: a successful storeKey replaces only the wrapped key material, the iv,
\* the ciphertext and the update timestamp of the provider's record; the
\* credentialId and the creation timestamp are the same after as before
C29_StoreKeyKeepsIdentity == [][C29_Step]_vars

C30_Step ==
  \A i \in Slots :
    StoreKeySucceeds(i) =>
      LET p == calls[i].provider
          cl == calls[i]
      IN
      /\ cl.key.raw # 0 /\ cl.iv # 0 /\ cl.encrypts = 1
      /\ db'[p].encKeyMaterial = cl.key.raw
      /\ db'[p].iv = cl.iv
      /\ db'[p].encrypted.raw = cl.key.raw
      /\ db'[p].encrypted.iv = cl.iv
      /\ db[p].updated =>
           /\ db'[p].encKeyMaterial # db[p].encKeyMaterial
           /\ db'[p].iv # db[p].iv

\* C30: every successful storeKey persists the key material and the iv that
\* were generated inside that call and used for its single encryption, and a
\* re-store never persists the key or the iv of the record it replaces
C30_FreshKeyAndIv == [][C30_Step]_vars

\* a storeKey has resolved after replacing an earlier key record
C30_Witness ==
  \E i \in Slots :
    LET p == calls[i].provider IN
    /\ calls[i].op = "storeKey"
    /\ calls[i].status = "ok"
    /\ db[p].updated
    /\ db[p].encKeyMaterial = (10 * ProviderIndex(p)) + 2
    /\ db[p].iv = (10 * ProviderIndex(p)) + 2

\* the lifecycle events the registry emitted about provider p, in order
LifecycleEvents(es, p) ==
  SelectSeq(es, LAMBDA e : /\ e.src = "registry"
                           /\ e.provider = p
                           /\ e.name \in {"started", "extended", "expired", "ended"})

\* this step ran the expiry timer of the session registered for p
ExpiresRegistered(p) ==
  \E t \in timers :
    /\ t.cb = p /\ t.at <= now /\ t \notin timers'
    /\ sessions[p].cache = t.cache
    /\ \A u \in timers : (u.cb = p /\ u.at <= now) => u = t
    /\ LifecycleEvents(emitted', p) # <<>>
    /\ LifecycleEvents(emitted', p)[1].name = "expired"

\* this step ended the session registered for p before anything else
EndsRegistered(p) ==
  /\ sessions[p].cache # 0
  /\ LifecycleEvents(emitted', p) # <<>>
  /\ LifecycleEvents(emitted', p)[1].name = "ended"

C31_Step ==
  \A p \in Providers :
    (ExpiresRegistered(p) \/ EndsRegistered(p))
      => (Len(LifecycleEvents(emitted', p)) > 1
            => LifecycleEvents(emitted', p)[2].name = "started")

\* C31: a session emits one terminating event, 'expired' or 'ended', never
\* both and never twice, and no 'extended' after it, so whatever the
\* registry emits about the provider next is the 'started' of another
\* session; this holds also when listeners call back into the registry
C31_OneTerminatingEvent == [][C31_Step]_vars

\* the cache c is the one the registry entry of its provider refers to
Registered(c) ==
  \E p \in Names : sessions[p].cache = c /\ caches[c].timer.cb = p

\* the last step was an endAllSessions() that has returned
AllLocked == \E k \in DOMAIN emitted : emitted[k].name = "cleared"

\* C32: every SecureCache that holds a secret is the cache its provider's
\* registry entry refers to (so a session started inside a listener stays
\* registered), and when lockAllSessions() has returned no cache holds a
\* secret or has a pending timer
C32_NoOrphanCache ==
  /\ \A c \in CacheIds : caches[c].held => Registered(c)
  /\ AllLocked =>
       /\ timers = {}
       /\ \A c \in CacheIds : ~caches[c].held /\ caches[c].timer = NoTimer

\* calls i and j ran on the same provider at the same time and both have
\* completed: a call is admitted only when no completed call awaits its
\* return, so two completed calls were in flight together
OverlappedAndDone(i, j) ==
  /\ i # j
  /\ Done(i) /\ Done(j)
  /\ calls[i].provider = calls[j].provider

\* C33: once a deleteProvider(p) and a storeKey(p, k) or retrieveKey(p) that
\* overlapped have both completed, no record of p holds ciphertext without a
\* credentialId and p has no live session without a record
C33_RevokedOrStored ==
  \A i, j \in Slots :
    (/\ OverlappedAndDone(i, j)
     /\ calls[i].op = "deleteProvider"
     /\ calls[j].op \in {"storeKey", "retrieveKey"})
      => LET p == calls[i].provider IN
         /\ db[p].encrypted # NoCipher => db[p].credentialId # 0
         /\ HasSession(Reg, p) => db[p].exists

\* calls i and j are retrieveKey calls on one provider that both took the
\* authenticate path, overlapped and have both returned a value, and no
\* other call has written or deleted the provider's record
BothRetrieved(i, j) ==
  /\ OverlappedAndDone(i, j)
  /\ db[calls[i].provider] = StoredRecord(calls[i].provider)
  /\ calls[i].op = "retrieveKey" /\ calls[j].op = "retrieveKey"
  /\ calls[i].authCalls = 1 /\ calls[j].authCalls = 1
  /\ calls[i].status = "ok" /\ calls[j].status = "ok"

\* C34: two overlapping retrieveKey(p) calls that both authenticate both
\* return the stored secret; once both have completed exactly one session
\* for p is registered, it holds that secret, exactly one expiry timer is
\* pending for p and no other cache holds a secret
C34_OverlappingRetrieves ==
  \A i, j \in Slots :
    BothRetrieved(i, j) =>
      LET p == calls[i].provider IN
      /\ calls[i].value = lastStored[p]
      /\ calls[j].value = lastStored[p]
      /\ HasSession(Reg, p)
      /\ GetApiKey(Reg, p) = lastStored[p]
      /\ Cardinality({t \in timers : t.cb = p}) = 1
      /\ \A t \in timers : t.cb = p => t.cache = sessions[p].cache
      /\ \A c \in CacheIds :
           caches[c].held => \E q \in Names : sessions[q].cache = c

C34_Witness ==
  \E i, j \in Slots :
    /\ BothRetrieved(i, j)
    /\ calls[i].starts = 1 /\ calls[j].starts = 1
    /\ calls[i].value = "sk-a"
    /\ HasSession(Reg, calls[i].provider)

\* the record of p holds a stored secret: ciphertext, iv and key material
SecretStored(rec) ==
  rec.exists /\ rec.encrypted # NoCipher /\ rec.iv # 0 /\ rec.encKeyMaterial # 0

\* this step is the storage.delete of a deleteProvider(p)
DeletesRecord(p) ==
  \E i \in Slots :
    /\ calls[i].op = "deleteProvider"
    /\ calls[i].provider = p
    /\ calls[i].pc = "dp_delete"
    /\ calls'[i].status = "ok"

C35_Step ==
  \A p \in Providers :
    /\ (SecretStored(db[p]) /\ ~SecretStored(db'[p])) => DeletesRecord(p)
    /\ (db[p].credentialId # 0 /\ db'[p].credentialId = 0) => DeletesRecord(p)

\* C35: a provider record is never partially deleted: a record that holds a
\* stored secret keeps ciphertext, iv and key material through every
\* operation but deleteProvider (createPasskey included), and an enrolled
\* provider stays enrolled until deleteProvider
C35_RecordMovesForward == [][C35_Step]_vars

\* this step emitted 'started' for p while a session for p was live
Replaces(p) ==
  /\ HasSession(Reg, p)
  /\ \E k \in DOMAIN emitted' :
       /\ emitted'[k].src = "registry"
       /\ emitted'[k].name = "started"
       /\ emitted'[k].provider = p

C36_Step ==
  \A p \in Providers :
    Replaces(p) =>
      LET es == RegistryEvents(emitted')
          c == sessions'[p].cache
      IN /\ Len(es) = 2
         /\ es[1] = Event("registry", "ended", p, 0)
         /\ es[2] = Event("registry", "started", p, sessions'[p].duration)
         /\ sessions'[p].startTime = now
         /\ caches'[c].sat = now
         /\ caches'[c].sv \in Secrets
         /\ GetApiKey(RegNext, p) = caches'[c].sv
         /\ {t \in timers' : t.cb = p}
              = {[at |-> now + es[2].duration, cache |-> c, cb |-> p]}

EndsAll ==
  \E k \in DOMAIN emitted' :
    emitted'[k].src = "registry" /\ emitted'[k].name = "cleared"

C37_Step ==
  EndsAll =>
    LET es == RegistryEvents(emitted')
        live == {p \in Names : HasSession(Reg, p)}
    IN /\ Len(es) = Cardinality(live) + 1
       /\ es[Len(es)] = Event("registry", "cleared", "", 0)
       /\ \A p \in live :
            \E k \in 1..(Len(es) - 1) : es[k] = Event("registry", "ended", p, 0)
       /\ \A k \in 1..(Len(es) - 1) : es[k].name = "ended" /\ es[k].provider \in live
       /\ \A p \in Names : ~HasSession(RegNext, p)
       /\ timers' = {}

\* C37: endAllSessions() emits one 'ended' for every provider whose session
\* was live when it was called and then 'cleared' once, after all of them
\* (also when no session was live); when it returns no provider has a
\* session and no expiry timer is pending
C37_EndAllThenCleared == [][C37_Step]_vars

C37_Witness ==
  /\ Len(RegistryEvents(emitted)) = Cardinality(Providers) + 1
  /\ RegistryEvents(emitted)[Cardinality(Providers) + 1]
       = Event("registry", "cleared", "", 0)
  /\ \A p \in Providers :
       \E k \in 1..Cardinality(Providers) :
         RegistryEvents(emitted)[k] = Event("registry", "ended", p, 0)
  /\ timers = {}

\* C38: whenever a SecureCache drops its masked record, by clear(), by
\* expiry or by a store() that replaces a value, the record's pad and masked
\* bytes have been overwritten first; pad and masked bytes are both present,
\* with one length, or both absent
C38_ScrubBeforeRelease ==
  /\ \A k \in DOMAIN emitted :
       emitted[k].src = "cache" => emitted[k].name = "overwritten"
  /\ \A c \in CacheIds :
       /\ Len(caches[c].pad) = Len(caches[c].data)
       /\ caches[c].held <=> caches[c].pad # <<>>

\* C39: getSessionInfo(p) is null exactly when hasSession(p) is false;
\* otherwise active is true, duration is the session's, elapsed is
\* now - startTime, remaining is max(0, duration - elapsed) and expiresAt is
\* startTime + duration, the time at which the session's one pending timer
\* fires, also after extendSession
C39_SessionInfo ==
  \A p \in Names :
    LET info == GetSessionInfo(Reg, p)
        s == sessions[p]
    IN /\ info.isNull <=> ~HasSession(Reg, p)
       /\ ~info.isNull =>
            /\ info.active
            /\ info.duration = s.duration
            /\ info.duration \in Durations
            /\ info.elapsed = now - s.startTime
            /\ info.elapsed >= 0
            /\ info.remaining = info.duration - info.elapsed
            /\ info.remaining >= 0
            /\ info.expiresAt = s.startTime + s.duration
            /\ {t.at : t \in {u \in timers : u.cache = s.cache}} = {info.expiresAt}

\* a session that was extended one time unit after it started, seen one
\* unit later
C39_Witness ==
  \E p \in Providers :
    /\ HasSession(Reg, p)
    /\ caches[sessions[p].cache].created = 1
    /\ sessions[p].startTime = 2
    /\ now = 3
    /\ GetSessionInfo(Reg, p).elapsed = 1
    /\ GetSessionInfo(Reg, p).expiresAt = 2 + DefaultDuration

\* C40: with due timers run and time advancing, every session that is
\* started (and extended only while the clock lasts) leaves the registry and
\* every cache that holds a secret is cleared, whatever listeners do
C40_SecretsLeaveMemory ==
  /\ \A c \in CacheIds : caches[c].held ~> ~caches[c].held
  /\ \A p \in ListenerProviders : HasSession(Reg, p) ~> ~HasSession(Reg, p)

\* the clock has run out after an expiry: no cache holds a secret, no timer
\* is pending and no session is registered
C40_Witness ==
  /\ \E c \in CacheIds : caches[c].expired
  /\ \A c \in CacheIds : ~caches[c].held
  /\ timers = {}
  /\ \A p \in Names : ~HasSession(Reg, p)
  /\ \E k \in DOMAIN emitted : emitted[k].name = "expired"
  /\ now = MaxTime
====
